---- MODULE Spec2Model ----
(***************************************************************************)
(* Markdown -> styled HTML engine of md-to-wechat and md-to-zhihu          *)
(* (scripts/convert.py of both skills).  The element tree that             *)
(* BeautifulSoup builds from the Markdown parser's output is a heap of     *)
(* nodes with parent links and ordered child lists; apply_styles is the    *)
(* sequence of its find_all passes, each pass one action.                  *)
(*                                                                         *)
(* Text is a sequence of one-character strings, so that strip(), lower()   *)
(* and upper() are computed, not assumed.  An inline style is the sequence *)
(* of its declarations <<property, literal part, theme token>>; an absent  *)
(* style attribute is the empty sequence.                                  *)
(***************************************************************************)
EXTENDS Integers, Sequences, FiniteSets, TLC

VARIABLES
    entry,       \* the conversion entry point that is running
    theme_name,  \* its theme key argument
    raw,         \* the tree the Markdown parser returned (never changed)
    styles,      \* the local `styles`
    heap,        \* the BeautifulSoup tree
    pc,          \* the pass that runs next; "done", "hung" or "raised"
    md_content,  \* the Markdown text argument
    md,          \* the Markdown text, as the preprocessing steps rewrite it
    metadata,    \* the mapping strip_frontmatter returned
    title,       \* the local `title` of convert_to_preview
    out,         \* the value the entry point returned
    results,     \* what earlier invocations returned, by their arguments
    now,             \* time.time()
    cache,           \* the contents of TOKEN_CACHE_FILE
    access_token,    \* the local `access_token` of publish_article
    html_content,    \* the fragment handed to replace_images_in_html
    content,         \* the fragment replace_images_in_html returned
    thumb_media_id,  \* what upload_thumb_media returned
    media_id,        \* what create_draft returned
    publish_id,      \* what publish_draft returned
    net,             \* the network requests of the running publish_article
    publish,         \* the `publish` argument (WeChat), `not draft` (Zhihu)
    md_files,        \* the sorted list of batch_publish
    idx,             \* its loop index
    success_list,    \* its success_list
    fail_list,       \* its fail_list
    sleeps,          \* how often it has slept
    calls,           \* the files publish_article has been called with
    ok,              \* what publish_article returned, or that it raised or exited
    themes,         \* the theme registries, as the running processes see them
    conv             \* the locals of each of several concurrent conversions

\* the state of the publishers, and of conversions run side by side
pubvars ==
    <<now, cache, access_token, html_content, content, thumb_media_id, media_id,
      publish_id, net, publish, md_files, idx, success_list, fail_list, sleeps, calls, ok>>

parvars == <<themes, conv>>

\* the locals of the one conversion of Spec, RunsSpec and MdSpec
convvars == <<theme_name, raw, styles, heap, md_content, md, metadata, title, results>>

vars == <<entry, pc, out, convvars, pubvars, parvars>>

(***************************************************************************)
(* Bounds of the model                                                     *)
(***************************************************************************)
MaxRows == 3

\* how many earlier invocations are remembered
MaxRuns == 2

\* the most nodes of a fragment handed to replace_images_in_html
MaxImgs == 2

\* the most Markdown files of a folder
MaxFiles == 3

(***************************************************************************)
(* str.strip, str.lower, str.upper                                         *)
(***************************************************************************)
Lowers == <<"a","b","c","d","e","f","g","h","i","j","k","l","m",
            "n","o","p","q","r","s","t","u","v","w","x","y","z">>

Uppers == <<"A","B","C","D","E","F","G","H","I","J","K","L","M",
            "N","O","P","Q","R","S","T","U","V","W","X","Y","Z">>

Whitespace == {" ", "\t", "\n"}

LowerChar(c) ==
    IF \E i \in DOMAIN Uppers : Uppers[i] = c
    THEN Lowers[CHOOSE i \in DOMAIN Uppers : Uppers[i] = c]
    ELSE c

UpperChar(c) ==
    IF \E i \in DOMAIN Lowers : Lowers[i] = c
    THEN Uppers[CHOOSE i \in DOMAIN Lowers : Lowers[i] = c]
    ELSE c

Lower(s) == [i \in DOMAIN s |-> LowerChar(s[i])]

Upper(s) == [i \in DOMAIN s |-> UpperChar(s[i])]

RECURSIVE LStrip(_)
LStrip(s) == IF s # <<>> /\ Head(s) \in Whitespace THEN LStrip(Tail(s)) ELSE s

RECURSIVE RStrip(_)
RStrip(s) ==
    IF s # <<>> /\ s[Len(s)] \in Whitespace
    THEN RStrip(SubSeq(s, 1, Len(s) - 1))
    ELSE s

Strip(s) == RStrip(LStrip(s))

(***************************************************************************)
(* THEMES                                                                  *)
(***************************************************************************)
Theme(name, primary, primary_light, primary_dark, text, text_secondary, bg_code, bg_code_text, bg_code_inline, bg_blockquote, border, border_light, font_body, font_size, line_height, font_code, pygments_style) ==
    [name |-> name, primary |-> primary, primary_light |-> primary_light,
     primary_dark |-> primary_dark, text |-> text,
     text_secondary |-> text_secondary, text_light |-> "#999999",
     bg |-> "#ffffff", bg_code |-> bg_code, bg_code_text |-> bg_code_text,
     bg_code_inline |-> bg_code_inline, bg_blockquote |-> bg_blockquote,
     border |-> border, border_light |-> border_light,
     font_body |-> font_body, font_size |-> font_size,
     line_height |-> line_height, font_code |-> font_code,
     pygments_style |-> pygments_style]

FontSans == "-apple-system, BlinkMacSystemFont, 'PingFang SC', 'Microsoft YaHei', sans-serif"

FontSerif == "'Georgia', 'Songti SC', 'SimSun', -apple-system, serif"

FontMono == "Consolas, Monaco, 'Courier New', monospace"

FontFira == "'Fira Code', 'JetBrains Mono', Consolas, Monaco, 'Courier New', monospace"

WechatThemeKeys == {"blue", "green", "dark", "warm"}

WECHAT_THEMES ==
    [k \in WechatThemeKeys |->
       CASE k = "blue" ->
              Theme("blue-name", "#1e6fff", "#eef4ff", "#1557cc", "#2b2b2b",
                    "#5f6368", "#1e1e2e", "#d4d4d4", "#eef4ff", "#f7f9fc",
                    "#e0e0e0", "#f0f0f0",
                    "-apple-system, BlinkMacSystemFont, 'PingFang SC', 'Microsoft YaHei', 'Segoe UI', Roboto, sans-serif",
                    "15px", "1.8", FontFira, "monokai")
         [] k = "green" ->
              Theme("green-name", "#07a35a", "#edfaf3", "#058c4c", "#2d3436",
                    "#636e72", "#1e272e", "#d4d4d4", "#edfaf3", "#f5fbf8",
                    "#dfe6e9", "#f0f0f0", FontSans, "15px", "1.8", FontMono,
                    "monokai")
         [] k = "dark" ->
              Theme("dark-name", "#2c3e50", "#f4f6f7", "#1a252f", "#2c3e50",
                    "#7f8c8d", "#282c34", "#abb2bf", "#f4f6f7", "#f8f9fa",
                    "#dce1e4", "#f0f0f0", FontSerif, "16px", "2.0", FontMono,
                    "one-dark")
         [] k = "warm" ->
              Theme("warm-name", "#e67e22", "#fef5ec", "#d35400", "#34495e",
                    "#7f8c8d", "#2d2d2d", "#d4d4d4", "#fef5ec", "#fffaf5",
                    "#f0d0b0", "#f5ead8", FontSans, "15px", "1.8", FontMono,
                    "monokai")]

ZhihuThemeKeys == {"zhihu", "elegant", "tech", "warm", "nature"}

ZHIHU_THEMES ==
    [k \in ZhihuThemeKeys |->
       CASE k = "zhihu" ->
              Theme("zhihu-name", "#0066FF", "#EBF3FF", "#0052CC", "#1A1A1A",
                    "#646464", "#1e1e2e", "#d4d4d4", "#EBF3FF", "#F6F8FA",
                    "#E5E5E5", "#F0F0F0",
                    "-apple-system, BlinkMacSystemFont, 'PingFang SC', 'Helvetica Neue', 'Microsoft YaHei', sans-serif",
                    "15px", "1.8", FontFira, "monokai")
         [] k = "elegant" ->
              Theme("elegant-name", "#34495E", "#F0F3F5", "#2C3E50", "#2C3E50",
                    "#7F8C8D", "#282C34", "#ABB2BF", "#F0F3F5", "#F8F9FA",
                    "#DCE1E4", "#F0F0F0", FontSerif, "16px", "2.0", FontMono,
                    "one-dark")
         [] k = "tech" ->
              Theme("tech-name", "#6C5CE7", "#F0EDFD", "#5A4BD1", "#2D3436",
                    "#636E72", "#1E1E2E", "#CDD6F4", "#F0EDFD", "#F8F7FC",
                    "#DDD6FE", "#F0F0F0",
                    "-apple-system, BlinkMacSystemFont, 'PingFang SC', 'Microsoft YaHei', 'Segoe UI', sans-serif",
                    "15px", "1.8",
                    "'Fira Code', 'JetBrains Mono', Consolas, monospace",
                    "dracula")
         [] k = "warm" ->
              Theme("warm-name", "#E67E22", "#FEF5EC", "#D35400", "#34495E",
                    "#7F8C8D", "#2D2D2D", "#D4D4D4", "#FEF5EC", "#FFFAF5",
                    "#F0D0B0", "#F5EAD8", FontSans, "15px", "1.8", FontMono,
                    "monokai")
         [] k = "nature" ->
              Theme("nature-name", "#00B894", "#E8FAF5", "#00A381", "#2D3436",
                    "#636E72", "#1E272E", "#D4D4D4", "#E8FAF5", "#F5FBF8",
                    "#B2DFDB", "#E0F2F1", FontSans, "15px", "1.8", FontMono,
                    "monokai")]

THEMES(v) == IF v = "wechat" THEN WECHAT_THEMES ELSE ZHIHU_THEMES

DefaultTheme(v) == IF v = "wechat" THEN "blue" ELSE "zhihu"

FallbackToWrongTheme(v, name) ==
    IF name \in DOMAIN THEMES(v) THEN THEMES(v)[name] ELSE THEMES(v)["warm"]

\* THEMES.get(theme_name, THEMES[default])
ThemeGet(v, name) ==
    IF name \in DOMAIN THEMES(v) THEN THEMES(v)[name] ELSE THEMES(v)[DefaultTheme(v)]

(***************************************************************************)
(* build_styles: the StyleSheet, element kind -> inline style.  Theme      *)
(* labels ("name") are replaced by ASCII tags; no style uses them.         *)
(***************************************************************************)
D(prop, lit) == <<prop, lit, "">>

DT(prop, lit, tok) == <<prop, lit, tok>>

W(v, wechat, zhihu) == IF v = "wechat" THEN wechat ELSE zhihu

StyleKeys ==
    {"container", "h1", "h2", "h3", "h4", "p", "strong", "em", "del", "a",
     "ul", "ol", "li", "blockquote", "blockquote_p", "code_inline",
     "code_block_wrapper", "code_block_header", "code_block_lang",
     "code_block_dots", "code_block_dot", "code_block_body", "table_wrapper",
     "table", "th", "td", "td_even", "hr", "img", "img_caption", "task_done",
     "footnote_section", "footnote_ref"}

StyleOf(v, t, k) ==
    CASE k = "container" ->
           << D("max-width", "100%"), DT("font-family", "", t.font_body),
              DT("font-size", "", t.font_size),
              DT("line-height", "", t.line_height), DT("color", "", t.text),
              D("word-wrap", "break-word"), D("overflow-wrap", "break-word") >>
      [] k = "h1" ->
           << D("font-size", W(v, "22px", "24px")), D("font-weight", "bold"),
              DT("color", "", t.primary), D("text-align", "center"),
              D("margin", "30px 0 20px 0"), D("padding-bottom", "12px"),
              DT("border-bottom", "2px solid ", t.primary),
              D("line-height", "1.4") >>
      [] k = "h2" ->
           << D("font-size", W(v, "19px", "20px")), D("font-weight", "bold"),
              DT("color", "", t.primary),
              D("margin", W(v, "28px 0 15px 0", "28px 0 16px 0")),
              D("padding", "4px 0 4px 12px"),
              DT("border-left", "4px solid ", t.primary),
              D("line-height", "1.4") >>
      [] k = "h3" ->
           << D("font-size", "17px"), D("font-weight", "bold"),
              DT("color", "", t.text),
              D("margin", W(v, "22px 0 10px 0", "24px 0 12px 0")),
              D("padding-left", "8px"), D("line-height", "1.4") >>
      [] k = "h4" ->
           << D("font-size", "15px"), D("font-weight", "bold"),
              DT("color", "", t.text_secondary),
              D("margin", W(v, "18px 0 8px 0", "20px 0 10px 0")),
              D("line-height", "1.4") >>
      [] k = "p" ->
           << D("margin", W(v, "0 0 15px 0", "0 0 16px 0")),
              D("text-align", "justify"),
              DT("line-height", "", t.line_height), DT("color", "", t.text) >>
      [] k = "strong" ->
           << D("font-weight", "bold"), DT("color", "", t.primary_dark) >>
      [] k = "em" -> << D("font-style", "italic") >>
      [] k = "del" ->
           << D("text-decoration", "line-through"),
              DT("color", "", t.text_light) >>
      [] k = "a" ->
           IF v = "wechat"
           THEN << DT("color", "", t.primary), D("text-decoration", "none"),
                   DT("border-bottom", "1px dashed ", t.primary),
                   D("word-break", "break-all") >>
           ELSE << DT("color", "", t.primary), D("text-decoration", "none"),
                   DT("border-bottom", "1px solid ", t.primary),
                   D("word-break", "break-all"), D("padding-bottom", "1px") >>
      [] k = "ul" ->
           << D("margin", W(v, "5px 0 15px 0", "8px 0 16px 0")),
              D("padding-left", "2em"), D("list-style-type", "disc") >>
      [] k = "ol" ->
           << D("margin", W(v, "5px 0 15px 0", "8px 0 16px 0")),
              D("padding-left", "2em") >>
      [] k = "li" ->
           << D("margin", W(v, "4px 0", "5px 0")),
              DT("line-height", "", t.line_height) >>
      [] k = "blockquote" ->
           << D("margin", W(v, "15px 0", "16px 0")),
              D("padding", W(v, "15px 18px", "16px 20px")),
              DT("background", "", t.bg_blockquote),
              DT("border-left", "4px solid ", t.primary),
              DT("color", "", t.text_secondary), D("font-size", "14px"),
              D("line-height", "1.75"), D("border-radius", "0 6px 6px 0") >>
      [] k = "blockquote_p" ->
           << D("margin", "0 0 8px 0"), D("text-align", "justify"),
              D("line-height", "1.75"), DT("color", "", t.text_secondary) >>
      [] k = "code_inline" ->
           << DT("background", "", t.bg_code_inline),
              DT("color", "", t.primary), D("padding", "2px 6px"),
              D("border-radius", "3px"), DT("font-family", "", t.font_code),
              D("font-size", "90%"), D("word-break", "break-all") >>
      [] k = "code_block_wrapper" ->
           << DT("background", "", t.bg_code), D("border-radius", "8px"),
              D("margin", W(v, "15px 0", "16px 0")), D("overflow", "hidden") >>
      [] k = "code_block_header" ->
           << D("display", "flex"), D("justify-content", "space-between"),
              D("align-items", "center"), D("padding", "8px 16px"),
              D("background",
                W(v, "rgba(255,255,255,0.05)", "rgba(255,255,255,0.06)")),
              D("border-bottom", "1px solid rgba(255,255,255,0.08)") >>
      [] k = "code_block_lang" ->
           << D("font-size", "12px"), D("color", "rgba(255,255,255,0.5)"),
              DT("font-family", "", t.font_code),
              D("text-transform", "uppercase"), D("letter-spacing", "0.5px") >>
      [] k = "code_block_dots" -> << D("display", "flex"), D("gap", "6px") >>
      [] k = "code_block_dot" ->
           << D("width", "10px"), D("height", "10px"),
              D("border-radius", "50%") >>
      [] k = "code_block_body" ->
           << D("padding", "16px"), D("overflow-x", "auto"),
              DT("font-family", "", t.font_code), D("font-size", "13px"),
              D("line-height", "1.6"), DT("color", "", t.bg_code_text),
              D("-webkit-overflow-scrolling", "touch") >>
      [] k = "table_wrapper" ->
           << D("overflow-x", "auto"), D("margin", W(v, "15px 0", "16px 0")),
              D("-webkit-overflow-scrolling", "touch") >>
      [] k = "table" ->
           << D("width", "100%"), D("border-collapse", "collapse"),
              D("font-size", "14px"), DT("border", "1px solid ", t.border) >>
      [] k = "th" ->
           << DT("background", "", t.primary), D("color", "#ffffff"),
              D("font-weight", "bold"), D("padding", "10px 14px"),
              D("text-align", "left"),
              DT("border", "1px solid ", t.primary_dark),
              D("font-size", "14px"), D("white-space", "nowrap") >>
      [] k = "td" ->
           << D("padding", "9px 14px"), DT("border", "1px solid ", t.border),
              D("line-height", "1.6"), D("font-size", "14px") >>
      [] k = "td_even" ->
           << D("padding", "9px 14px"), DT("border", "1px solid ", t.border),
              D("line-height", "1.6"), D("font-size", "14px"),
              DT("background", "", t.primary_light) >>
      [] k = "hr" ->
           << D("border", "none"), D("height", "1px"),
              DT("background", "", t.border), D("margin", "30px 0") >>
      [] k = "img" ->
           << D("max-width", "100%"), D("height", "auto"),
              D("border-radius", "6px"), D("margin", "10px auto"),
              D("display", "block") >>
      [] k = "img_caption" ->
           << D("text-align", "center"), D("font-size", "13px"),
              DT("color", "", t.text_light),
              D("margin", W(v, "6px 0 15px 0", "6px 0 16px 0")),
              D("line-height", "1.5") >>
      [] k = "task_done" ->
           << DT("color", "", t.text_light),
              D("text-decoration", "line-through") >>
      [] k = "footnote_section" ->
           << D("margin-top", "30px"), D("padding-top", "15px"),
              DT("border-top", "1px solid ", t.border),
              D("font-size", "13px"), DT("color", "", t.text_secondary) >>
      [] k = "footnote_ref" ->
           << DT("color", "", t.primary), D("font-size", "12px"),
              D("vertical-align", "super"), D("text-decoration", "none"),
              D("font-weight", "bold") >>

build_styles(v, name) ==
    LET t == ThemeGet(v, name) IN [k \in StyleKeys |-> StyleOf(v, t, k)]

\* str.startswith("padding:") on a style attribute
StartsWithPadding(style) == style # <<>> /\ style[1][1] = "padding"

\* `needle in style` for a needle that is a property name occurring in no
\* other property name and in no value of the style sheet
StyleContains(style, needle) == \E i \in DOMAIN style : style[i][1] = needle

\* the literal style given to a <pre> that sits inside a code-block body
InnerPreStyle ==
    << D("margin", "0"), D("padding", "0"), D("background", "transparent"),
       D("overflow", "visible") >>

(***************************************************************************)
(* The element tree.  A parser tree is a nested record; BeautifulSoup(html)*)
(* turns it into a heap: node ids are positions in the sequence `heap`,    *)
(* node 1 is the soup itself.  Class "language-X" is the field lang = X.   *)
(***************************************************************************)
Nil == 0

\* Statement order: the tree h is fully built before e runs on it.
After(h, e) == IF Len(h) >= 0 THEN e ELSE h

\* the tree as a list of nodes again, after a pass written as a function
AsTree(f) == f \o <<>>

Root == 1

El(tag, cls, kids) ==
    [tag |-> tag, cls |-> cls, lang |-> <<>>, style |-> <<>>, alt |-> <<>>,
     text |-> <<>>, kids |-> kids]

Txt(s) == [El("#text", {}, <<>>) EXCEPT !.text = s]

\* soup.new_tag(name).  The field `made` is not part of bs4: it records that
\* the node was created by the engine and did not come from the parser.
NewNode(tag) ==
    [tag |-> tag, cls |-> {}, lang |-> <<>>, style |-> <<>>, alt |-> <<>>,
     text |-> <<>>, parent |-> Nil, kids |-> <<>>, made |-> TRUE]

RECURSIVE AddTree(_, _, _), AddForest(_, _, _)
AddTree(h, p, t) ==
    LET id == Len(h) + 1
        h1 == Append(h, [tag |-> t.tag, cls |-> t.cls, lang |-> t.lang,
                         style |-> t.style, alt |-> t.alt, text |-> t.text,
                         parent |-> p, kids |-> <<>>, made |-> FALSE])
        h2 == [h1 EXCEPT ![p].kids = Append(@, id)]
    IN  After(h2, AddForest(h2, id, t.kids))

AddForest(h, p, ts) ==
    IF ts = <<>> THEN h
    ELSE LET h1 == AddTree(h, p, Head(ts)) IN After(h1, AddForest(h1, p, Tail(ts)))

\* BeautifulSoup(html, "html.parser")
BeautifulSoup(doc) ==
    AddForest(<<[NewNode("[document]") EXCEPT !.made = FALSE]>>, Root, doc)

(***************************************************************************)
(* bs4 tree operations used by convert.py                                  *)
(***************************************************************************)
IndexOf(seq, x) == CHOOSE i \in DOMAIN seq : seq[i] = x

RemoveAt(seq, i) == SubSeq(seq, 1, i - 1) \o SubSeq(seq, i + 1, Len(seq))

\* x becomes element number i
InsertAt(seq, i, x) == SubSeq(seq, 1, i - 1) \o <<x>> \o SubSeq(seq, i, Len(seq))

InSeq(x, seq) == \E i \in DOMAIN seq : seq[i] = x

RECURSIVE Descendants(_, _), DescSeq(_, _)
Descendants(h, x) == DescSeq(h, h[x].kids)

DescSeq(h, ks) ==
    IF ks = <<>> THEN <<>>
    ELSE <<Head(ks)>> \o Descendants(h, Head(ks)) \o DescSeq(h, Tail(ks))

\* x.find_all(name): a list taken before the loop body changes the tree
find_all(h, x, name) == SelectSeq(Descendants(h, x), LAMBDA i : h[i].tag = name)

find_all_class(h, x, name, c) ==
    SelectSeq(Descendants(h, x), LAMBDA i : h[i].tag = name /\ c \in h[i].cls)

\* x.find(name): the first match, or None
find(h, x, name) ==
    LET r == find_all(h, x, name) IN IF r = <<>> THEN Nil ELSE r[1]

RECURSIVE Ancestors(_, _)
Ancestors(h, x) ==
    IF h[x].parent = Nil THEN {} ELSE {h[x].parent} \cup Ancestors(h, h[x].parent)

new_tag(h, name) == Append(h, NewNode(name))

extract(h, x) ==
    IF h[x].parent = Nil THEN h
    ELSE LET p == h[x].parent
         IN  [h EXCEPT ![p].kids = RemoveAt(@, IndexOf(@, x)), ![x].parent = Nil]

\* Tag.insert(pos, x), pos counted from 1 here
insert(h, p, pos, x) ==
    LET h1 == extract(h, x)
    IN  [h1 EXCEPT ![p].kids = InsertAt(@, pos, x), ![x].parent = p]

\* Tag.append(x)
append(h, p, x) ==
    LET h1 == extract(h, x) IN insert(h1, p, Len(h1[p].kids) + 1, x)

\* tag.string = s
set_string(h, x, s) ==
    LET id == Len(h) + 1
        h1 == Append(h, [NewNode("#text") EXCEPT !.text = s, !.parent = x])
    IN  [h1 EXCEPT ![x].kids = <<id>>]

\* x.insert_after(y): y goes right behind x among the children of x's parent
insert_after(h, x, y) ==
    LET p  == h[x].parent
        h1 == extract(h, y)
    IN  insert(h1, p, IndexOf(h1[p].kids, x) + 1, y)

\* Tag.insert appends x to p and then walks from p up through the parents
\* looking for a next sibling.  When x is itself above p the walk goes round
\* the new cycle p -> ... -> x -> p; it never ends if no node on it has a
\* next sibling.
IsLastChild(h, a) ==
    h[a].parent = Nil \/ h[h[a].parent].kids[Len(h[h[a].parent].kids)] = a

InsertWalkCycles(h, p, x) ==
    /\ x \in Ancestors(h, p)
    /\ \A a \in ({p} \cup Ancestors(h, p)) \ ({x} \cup Ancestors(h, x)) :
           IsLastChild(h, a)

\* x.replace_with(y)
replace_with(h, x, y) ==
    LET p  == h[x].parent
        i  == IndexOf(h[p].kids, x)
        h1 == extract(extract(h, y), x)
    IN  insert(h1, p, i, y)

\* x.wrap(w)
wrap(h, x, w) == append(replace_with(h, x, w), w, x)

\* x.decompose()
decompose(h, x) == extract(h, x)

\* div.decode_contents() parsed again: fresh nodes equal to the children of
\* src, node for node, placed under dst
RECURSIVE CloneTree(_, _, _), CloneForest(_, _, _)
CloneTree(h, x, p) ==
    LET id == Len(h) + 1
        h1 == Append(h, [h[x] EXCEPT !.parent = p, !.kids = <<>>])
        h2 == [h1 EXCEPT ![p].kids = Append(@, id)]
    IN  After(h2, CloneForest(h2, h[x].kids, id))

CloneForest(h, ks, p) ==
    IF ks = <<>> THEN h
    ELSE LET h1 == CloneTree(h, Head(ks), p) IN After(h1, CloneForest(h1, Tail(ks), p))

SetStyle(h, ids, st) ==
    AsTree([i \in DOMAIN h |-> IF InSeq(i, ids) THEN [h[i] EXCEPT !.style = st] ELSE h[i]])

(***************************************************************************)
(* apply_styles, pass by pass.  Each pass takes the list find_all returns  *)
(* and runs its loop body over it.                                         *)
(***************************************************************************)
StyleHeadings(h, st) ==
    LET h1 == SetStyle(h, find_all(h, Root, "h1"), st["h1"])
        h2 == SetStyle(h1, find_all(h1, Root, "h2"), st["h2"])
        h3 == SetStyle(h2, find_all(h2, Root, "h3"), st["h3"])
    IN  SetStyle(h3, find_all(h3, Root, "h4"), st["h4"])

RECURSIVE InsideTag(_, _, _)
InsideTag(h, x, name) ==
    /\ h[x].parent # Nil
    /\ \/ h[h[x].parent].tag = name
       \/ InsideTag(h, h[x].parent, name)

\* the blockquote style for every paragraph anywhere inside a blockquote
ParagraphStyleInside(h, st, p) ==
    IF InsideTag(h, p, "blockquote") THEN st["blockquote_p"] ELSE st["p"]

ParagraphStyle(h, st, p) ==
    IF h[p].parent # Nil /\ h[h[p].parent].tag = "blockquote"
    THEN st["blockquote_p"]
    ELSE st["p"]

StyleParagraphs(h, st) ==
    LET ps == find_all(h, Root, "p")
    IN  AsTree([i \in DOMAIN h |->
           IF InSeq(i, ps) THEN [h[i] EXCEPT !.style = ParagraphStyle(h, st, i)]
           ELSE h[i]])

StyleInline(h, st) ==
    LET h1 == SetStyle(h, find_all(h, Root, "strong"), st["strong"])
        h2 == SetStyle(h1, find_all(h1, Root, "em"), st["em"])
    IN  SetStyle(h2, find_all(h2, Root, "del"), st["del"])

LinkStyle(h, st, a) ==
    IF "footnote-backref" \in h[a].cls \/ "footnote-ref" \in h[a].cls
    THEN st["footnote_ref"]
    ELSE st["a"]

StyleLinks(h, st) ==
    LET as == find_all(h, Root, "a")
    IN  AsTree([i \in DOMAIN h |->
           IF InSeq(i, as) THEN [h[i] EXCEPT !.style = LinkStyle(h, st, i)]
           ELSE h[i]])

StyleLists(h, st) ==
    LET h1 == SetStyle(h, find_all(h, Root, "ul"), st["ul"])
        h2 == SetStyle(h1, find_all(h1, Root, "ol"), st["ol"])
    IN  SetStyle(h2, find_all(h2, Root, "li"), st["li"])

StyleBlockquotes(h, st) ==
    SetStyle(h, find_all(h, Root, "blockquote"), st["blockquote"])

(***************************************************************************)
(* Code blocks (div.codehilite)                                            *)
(***************************************************************************)
DotColors(v) ==
    IF v = "wechat" THEN <<"#ff5f57", "#febc2e", "#28c840">>
    ELSE <<"#FF5F57", "#FEBC2E", "#28C840">>

\* the language hint of a code block: the div's own language- class (in the
\* WeChat variant only looked at when the div holds a <pre>), else that of
\* the first <code> below it
DetectLang(h, v, div) ==
    LET fromDiv == IF v = "wechat" /\ find(h, div, "pre") = Nil THEN <<>>
                   ELSE h[div].lang
        code    == find(h, div, "code")
    IN  IF fromDiv # <<>> THEN fromDiv
        ELSE IF code # Nil THEN h[code].lang
        ELSE <<>>

RECURSIVE AddDots(_, _, _, _)
AddDots(h, st, dots_div, colors) ==
    IF colors = <<>> THEN h
    ELSE LET dot == Len(h) + 1
             h1  == new_tag(h, "span")
             h2  == [h1 EXCEPT ![dot].style =
                        Append(st["code_block_dot"], D("background", Head(colors)))]
             h3  == append(h2, dots_div, dot)
         IN  After(h3, AddDots(h3, st, dots_div, Tail(colors)))

BadgeText(lang) == Upper(lang)

AddBadge(h, st, header, lang) ==
    IF lang = <<>> THEN h
    ELSE LET lang_span == Len(h) + 1
             h1 == new_tag(h, "span")
             h2 == [h1 EXCEPT ![lang_span].style = st["code_block_lang"]]
             h3 == set_string(h2, lang_span, BadgeText(lang))
         IN  append(h3, header, lang_span)

RebuildCodeBlock(h, st, v, div) ==
    LET lang     == DetectLang(h, v, div)
        new_div  == Len(h) + 1
        header   == Len(h) + 2
        dots_div == Len(h) + 3
        h1 == new_tag(new_tag(new_tag(h, "div"), "div"), "div")
        h2 == [h1 EXCEPT ![new_div].style = st["code_block_wrapper"],
                         ![header].style = st["code_block_header"],
                         ![dots_div].style = st["code_block_dots"]]
        h3 == AddDots(h2, st, dots_div, DotColors(v))
        h4 == append(h3, header, dots_div)
        h5 == AddBadge(h4, st, header, lang)
        h6 == append(h5, new_div, header)
        body_div == Len(h6) + 1
        h7 == [new_tag(h6, "div") EXCEPT ![body_div].style = st["code_block_body"]]
        h8 == CloneForest(h7, h7[div].kids, body_div)
        h9 == append(h8, new_div, body_div)
        inner_pre == find(h9, new_div, "pre")
        h10 == IF inner_pre # Nil
               THEN [h9 EXCEPT ![inner_pre].style = InnerPreStyle]
               ELSE h9
    IN  replace_with(h10, div, new_div)

RECURSIVE CodeBlockLoop(_, _, _, _)
CodeBlockLoop(h, st, v, divs) ==
    IF divs = <<>> THEN h
    ELSE LET h1 == RebuildCodeBlock(h, st, v, Head(divs))
         IN  After(h1, CodeBlockLoop(h1, st, v, Tail(divs)))

StyleCodeBlocks(h, st, v) ==
    CodeBlockLoop(h, st, v, find_all_class(h, Root, "div", "codehilite"))

(***************************************************************************)
(* Bare <pre> blocks                                                       *)
(***************************************************************************)
NeverSkip(h, pre) == FALSE

\* pre.parent and pre.parent.get("style", "").startswith("padding:")
BarePreSkip(h, pre) ==
    h[pre].parent # Nil /\ StartsWithPadding(h[h[pre].parent].style)

\* One <pre>: returns the heap and whether the final insert_after walked a
\* cycle.  extract() has run and body.append(pre) has made body the parent of
\* pre by the time `pre.insert_after(wrapper) if pre.parent else None` is
\* evaluated, so the wrapper is inserted behind pre INSIDE body, never into
\* the document.
WrapBarePre(h, st, pre) ==
    LET wrapper == Len(h) + 1
        body    == Len(h) + 2
        h1 == new_tag(new_tag(h, "div"), "div")
        h2 == [h1 EXCEPT ![wrapper].style = st["code_block_wrapper"],
                         ![body].style = st["code_block_body"]]
        h3 == extract(h2, pre)
        h4 == [h3 EXCEPT ![pre].style = InnerPreStyle]
        h5 == append(h4, body, pre)
        h6 == append(h5, wrapper, body)
    IN  IF h6[pre].parent # Nil
        THEN [h |-> insert_after(h6, pre, wrapper),
              cyc |-> InsertWalkCycles(h6, h6[pre].parent, wrapper)]
        ELSE [h |-> h6, cyc |-> FALSE]

RECURSIVE BarePreLoop(_, _, _, _)
BarePreLoop(h, st, pres, cyc) ==
    IF pres = <<>> THEN [h |-> h, cyc |-> cyc]
    ELSE IF BarePreSkip(h, Head(pres)) THEN BarePreLoop(h, st, Tail(pres), cyc)
    ELSE LET r == WrapBarePre(h, st, Head(pres))
         IN  After(r.h, BarePreLoop(r.h, st, Tail(pres), cyc \/ r.cyc))

WrapBarePres(h, st) == BarePreLoop(h, st, find_all(h, Root, "pre"), FALSE)

(***************************************************************************)
(* Inline code                                                             *)
(***************************************************************************)
InlineCodeSkip(h, code) ==
    LET p == h[code].parent
    IN  /\ p # Nil
        /\ \/ h[p].tag = "pre"
           \/ /\ h[p].tag = "div"
              /\ \/ StyleContains(h[p].style, "overflow-x")
                 \/ StyleContains(h[p].style, "font-family")

StyleInlineCode(h, st) ==
    LET cs == find_all(h, Root, "code")
    IN  AsTree([i \in DOMAIN h |->
           IF InSeq(i, cs) /\ ~InlineCodeSkip(h, i)
           THEN [h[i] EXCEPT !.style = st["code_inline"]]
           ELSE h[i]])

(***************************************************************************)
(* Tables                                                                  *)
(***************************************************************************)
ZebraSwapped(st, i) == IF i % 2 = 0 THEN st["td_even"] ELSE st["td"]

\* styles["td_even"] if i % 2 == 1 else styles["td"], i counted from 0
ZebraStyle(st, i) == IF i % 2 = 1 THEN st["td_even"] ELSE st["td"]

RECURSIVE ZebraLoop(_, _, _, _)
ZebraLoop(h, st, trs, i) ==
    IF trs = <<>> THEN h
    ELSE LET h1 == SetStyle(h, find_all(h, Head(trs), "td"), ZebraStyle(st, i))
         IN  After(h1, ZebraLoop(h1, st, Tail(trs), i + 1))

\* a table pass that leaves the header cells alone
StyleTableBodyOnly(h, st, table) ==
    LET wrapper == Len(h) + 1
        h1 == [new_tag(h, "div") EXCEPT ![wrapper].style = st["table_wrapper"],
                                        ![table].style = st["table"]]
        tbody == find(h1, table, "tbody")
        h3 == IF tbody # Nil
              THEN ZebraLoop(h1, st, find_all(h1, tbody, "tr"), 0)
              ELSE h1
    IN  wrap(h3, table, wrapper)

StyleTable(h, st, table) ==
    LET wrapper == Len(h) + 1
        h1 == [new_tag(h, "div") EXCEPT ![wrapper].style = st["table_wrapper"],
                                        ![table].style = st["table"]]
        h2 == SetStyle(h1, find_all(h1, table, "th"), st["th"])
        tbody == find(h2, table, "tbody")
        h3 == IF tbody # Nil
              THEN ZebraLoop(h2, st, find_all(h2, tbody, "tr"), 0)
              ELSE h2
    IN  wrap(h3, table, wrapper)

RECURSIVE TableLoop(_, _, _)
TableLoop(h, st, tables) ==
    IF tables = <<>> THEN h
    ELSE LET h1 == StyleTable(h, st, Head(tables))
         IN  After(h1, TableLoop(h1, st, Tail(tables)))

StyleTables(h, st) == TableLoop(h, st, find_all(h, Root, "table"))

NoRuleStyle(h, st) == h

StyleRules(h, st) == SetStyle(h, find_all(h, Root, "hr"), st["hr"])

(***************************************************************************)
(* Images                                                                  *)
(***************************************************************************)
Str_image == <<"i", "m", "a", "g", "e">>

Str_img == <<"i", "m", "g">>

\* alt is already stripped.
\* WeChat:  if alt and alt != "image"
\* Zhihu:   if alt and alt.lower() not in ("image", "img", "")
CaptionWanted(v, alt) ==
    IF v = "wechat"
    THEN alt # <<>> /\ alt # Str_image
    ELSE alt # <<>> /\ Lower(alt) \notin {Str_image, Str_img, <<>>}

CaptionAtEnd(h, img, caption) == append(h, h[img].parent, caption)

PlaceCaption(h, img, caption) == insert_after(h, img, caption)

StyleImage(h, st, v, img) ==
    LET h1  == [h EXCEPT ![img].style = st["img"]]
        alt == Strip(h1[img].alt)
    IN  IF CaptionWanted(v, alt)
        THEN LET caption == Len(h1) + 1
                 h2 == [new_tag(h1, "p") EXCEPT ![caption].style = st["img_caption"]]
                 h3 == set_string(h2, caption, alt)
             IN  PlaceCaption(h3, img, caption)
        ELSE h1

RECURSIVE ImageLoop(_, _, _, _)
ImageLoop(h, st, v, imgs) ==
    IF imgs = <<>> THEN h
    ELSE LET h1 == StyleImage(h, st, v, Head(imgs))
         IN  After(h1, ImageLoop(h1, st, v, Tail(imgs)))

\* an image pass that walks the document again after its first walk
StyleImagesRevisit(h, st, v) ==
    LET h1 == ImageLoop(h, st, v, find_all(h, Root, "img"))
    IN  After(h1, ImageLoop(h1, st, v, find_all(h1, Root, "img")))

StyleImages(h, st, v) == ImageLoop(h, st, v, find_all(h, Root, "img"))

StyleTaskDone(h, st) ==
    SetStyle(h, find_all_class(h, Root, "span", "task-done"), st["task_done"])

(***************************************************************************)
(* Footnote section                                                        *)
(***************************************************************************)
KeepFootnoteRules(h, div) == <<>>

FootnoteRules(h, div) == find_all(h, div, "hr")

RECURSIVE DecomposeAll(_, _)
DecomposeAll(h, ids) ==
    IF ids = <<>> THEN h
    ELSE LET h1 == decompose(h, Head(ids)) IN After(h1, DecomposeAll(h1, Tail(ids)))

RECURSIVE FootnoteLoop(_, _, _)
FootnoteLoop(h, st, divs) ==
    IF divs = <<>> THEN h
    ELSE LET div == Head(divs)
             h1  == [h EXCEPT ![div].style = st["footnote_section"]]
             h2  == DecomposeAll(h1, FootnoteRules(h1, div))
         IN  After(h2, FootnoteLoop(h2, st, Tail(divs)))

StyleFootnotes(h, st) ==
    FootnoteLoop(h, st, find_all_class(h, Root, "div", "footnote"))

(***************************************************************************)
(* convert_to_zhihu_content: the light post-processing                     *)
(***************************************************************************)
ZhihuCodeBlock(h, div) ==
    LET code_tag == find(h, div, "code")
        lang     == IF code_tag # Nil THEN h[code_tag].lang ELSE <<>>
        pre      == find(h, div, "pre")
    IN  IF pre = Nil THEN h
        ELSE LET new_pre  == Len(h) + 1
                 new_code == Len(h) + 2
                 h1 == new_tag(new_tag(h, "pre"), "code")
                 h2 == [h1 EXCEPT ![new_code].lang = lang]
                 h3 == CloneForest(h2, h2[pre].kids, new_code)
                 h4 == append(h3, new_pre, new_code)
             IN  replace_with(h4, div, new_pre)

RECURSIVE ZhihuCodeLoop(_, _)
ZhihuCodeLoop(h, divs) ==
    IF divs = <<>> THEN h
    ELSE LET h1 == ZhihuCodeBlock(h, Head(divs))
         IN  After(h1, ZhihuCodeLoop(h1, Tail(divs)))

ZhihuCodeBlocks(h) == ZhihuCodeLoop(h, find_all_class(h, Root, "div", "codehilite"))

FigcaptionWanted(alt) ==
    alt # <<>> /\ Lower(alt) \notin {Str_image, Str_img, <<>>}

\* One <img>.  img.extract() and figure.append(img) run first, so in
\* `img.insert_after(figure) if img.parent else soup.append(figure)` the
\* parent of img is the figure itself, and Tag.insert refuses to insert a tag
\* into itself (ValueError).
ZhihuFigure(h, img) ==
    IF h[img].parent = Nil \/ h[h[img].parent].tag = "figure"
    THEN [h |-> h, raised |-> FALSE]
    ELSE LET figure == Len(h) + 1
             h1  == new_tag(h, "figure")
             h2  == append(extract(h1, img), figure, img)
             alt == Strip(h2[img].alt)
             h3  == IF FigcaptionWanted(alt)
                    THEN LET figcaption == Len(h2) + 1
                         IN  append(set_string(new_tag(h2, "figcaption"),
                                               figcaption, alt),
                                    figure, figcaption)
                    ELSE h2
         IN  IF h3[img].parent # Nil
             THEN IF h3[img].parent = figure
                  THEN [h |-> h3, raised |-> TRUE]
                  ELSE [h |-> insert_after(h3, img, figure), raised |-> FALSE]
             ELSE [h |-> append(h3, Root, figure), raised |-> FALSE]

RECURSIVE ZhihuFigureLoop(_, _)
ZhihuFigureLoop(h, imgs) ==
    IF imgs = <<>> THEN [h |-> h, raised |-> FALSE]
    ELSE LET r == ZhihuFigure(h, Head(imgs))
         IN  IF r.raised THEN r ELSE After(r.h, ZhihuFigureLoop(r.h, Tail(imgs)))

ZhihuFigures(h) == ZhihuFigureLoop(h, find_all(h, Root, "img"))

(***************************************************************************)
(* Parser output: the trees python-markdown (tables, fenced_code,          *)
(* footnotes, codehilite with noclasses=True) hands to BeautifulSoup,      *)
(* raw HTML blocks of the Markdown source included.                        *)
(***************************************************************************)
WithAlt(t, a) == [t EXCEPT !.alt = a]

WithLang(t, l) == [t EXCEPT !.lang = l]

WithStyle(t, st) == [t EXCEPT !.style = st]

Alts ==
    { <<>>, <<" ">>, <<"i","m","a","g","e">>, <<"I","m","a","g","e">>,
      <<" ","i","m","a","g","e","\n">>, <<"i","m","g">>, <<"I","M","G">>,
      <<"c","a","t">>, <<" ","C","a","t"," ">> }

Langs == { <<"p","y">>, <<"J","s">> }

B_p == El("p", {}, << Txt(<<"a","b">>) >>)

B_h1 == El("h1", {}, << Txt(<<"T">>) >>)

B_h5 == El("h5", {}, << Txt(<<"u">>), WithAlt(El("img", {}, <<>>), <<"c","a","t">>) >>)

B_blockquote ==
    El("blockquote", {},
       << El("p", {}, << Txt(<<"q">>) >>),
          El("ul", {}, << El("li", {}, << El("p", {}, << Txt(<<"r">>) >>) >>) >>) >>)

B_img(a) == El("p", {}, << WithAlt(El("img", {}, <<>>), a), Txt(<<"x">>) >>)

\* <div class="codehilite" style=..><pre style=..><span></span><code>..
B_codehilite(divLang, codeLang) ==
    WithLang(
      WithStyle(
        El("div", {"codehilite"},
           << WithStyle(
                El("pre", {},
                   << El("span", {}, <<>>),
                      WithLang(
                        El("code", {},
                           << WithStyle(El("span", {}, << Txt(<<"k">>) >>),
                                        << D("color", "#66d9ef") >>),
                              Txt(<<"v">>) >>),
                        codeLang) >>),
                << D("line-height", "125%") >>) >>),
        << D("background", "#272822") >>),
      divLang)

\* a raw <pre><code>..</code></pre> of the source: not highlighted
B_pre == El("pre", {}, << El("code", {}, << Txt(<<"w">>) >>) >>)

B_code == El("p", {}, << Txt(<<"a">>), El("code", {}, << Txt(<<"c">>) >>) >>)

Digit(i) == <<"0","1","2","3","4","5","6","7","8","9">>[i + 1]

BodyRow(i) ==
    El("tr", {}, << El("td", {}, << Txt(<<"l", Digit(i)>>) >>),
                    El("td", {}, << Txt(<<"r", Digit(i)>>) >>) >>)

B_table(n) ==
    El("table", {},
       << El("thead", {}, << El("tr", {}, << El("th", {}, << Txt(<<"H">>) >>) >>) >>),
          El("tbody", {}, [i \in 1..n |-> BodyRow(i)]) >>)

B_footnote(withRule) ==
    El("div", {"footnote"},
       (IF withRule THEN << El("hr", {}, <<>>) >> ELSE <<>>) \o
       << El("ol", {},
             << El("li", {},
                   << El("p", {},
                         << Txt(<<"f">>),
                            El("a", {"footnote-backref"}, << Txt(<<"b">>) >>) >>) >>) >>) >>)

B_tasks ==
    El("ul", {},
       << El("li", {}, << El("span", {"task-done"}, << Txt(<<"d">>) >>) >>),
          El("li", {}, << Txt(<<"t">>) >>) >>)

B_hr == El("hr", {}, <<>>)

B_inline ==
    El("p", {},
       << El("a", {}, << Txt(<<"l">>) >>),
          El("sup", {}, << El("a", {"footnote-ref"}, << Txt(<<"1">>) >>) >>),
          El("strong", {}, << Txt(<<"s">>) >>),
          El("em", {}, << Txt(<<"e">>) >>),
          El("del", {}, << Txt(<<"z">>) >>) >>)

\* an element of a kind apply_styles has no rule for
B_details ==
    WithStyle(El("details", {"note"},
                 << El("summary", {}, << Txt(<<"m">>) >>), Txt(<<"n">>) >>),
              << D("color", "red") >>)

\* raw HTML of the source: inline code in a <div> that sets its own font
B_styled_div ==
    WithStyle(El("div", {}, << El("code", {}, << Txt(<<"m">>) >>) >>),
              << D("font-family", "serif") >>)

Blocks ==
    { B_p, B_h1, B_h5, B_blockquote, B_pre, B_code, B_tasks, B_hr, B_inline,
      B_details, B_styled_div, B_footnote(TRUE), B_footnote(FALSE),
      B_codehilite(<<>>, <<>>) }
    \cup { B_img(a) : a \in Alts }
    \cup { B_codehilite(l, <<>>) : l \in Langs }
    \cup { B_codehilite(<<>>, l) : l \in Langs }
    \cup { B_table(n) : n \in 0..MaxRows }

Docs == { <<>> } \cup { <<a>> : a \in Blocks } \cup { <<a, b>> : a \in Blocks, b \in Blocks }

Entries == {"convert", "convert_to_wechat_content", "convert_to_preview", "convert_to_zhihu_content"}

VariantOf(e) ==
    IF e \in {"convert", "convert_to_wechat_content", "publish_article"} THEN "wechat"
    ELSE "zhihu"

PreviewEntries == {"convert", "convert_to_preview"}

Variant == VariantOf(entry)

ThemeArgs(e) ==
    IF e = "convert_to_zhihu_content" THEN {"zhihu"}
    ELSE DOMAIN THEMES(VariantOf(e)) \cup {"nosuch", ""}

NoStyles == [k \in {} |-> <<>>]

\* titles extract_title can return
Titles == { <<"T">>, <<"U","n","t","i","t","l","e","d">> }

(***************************************************************************)
(* Markdown pre-processing.  A text is a sequence of characters; the tag   *)
(* and glyph a replacement writes are one element each.                    *)
(***************************************************************************)
StartsWith(s, p) == Len(s) >= Len(p) /\ SubSeq(s, 1, Len(p)) = p

\* s.find(sub) from position i on; 0 when there is none
FindFrom(s, sub, i) ==
    LET at == { j \in i..(Len(s) - Len(sub) + 1) : SubSeq(s, j, j + Len(sub) - 1) = sub }
    IN  IF at = {} THEN 0 ELSE CHOOSE j \in at : \A k \in at : j <= k

\* s.split(sep, maxsplit)
RECURSIVE Split(_, _, _)
Split(s, sep, maxsplit) ==
    LET j == FindFrom(s, sep, 1)
    IN  IF maxsplit = 0 \/ j = 0 THEN << s >>
        ELSE << SubSeq(s, 1, j - 1) >>
             \o Split(SubSeq(s, j + Len(sep), Len(s)), sep, maxsplit - 1)

SplitLines(s) == Split(s, << "\n" >>, Len(s))

\* the loop body of strip_frontmatter: metadata[key.strip()] = value.strip()
MetadataLine(meta, line0) ==
    LET line == Strip(line0)
        j    == FindFrom(line, << ":" >>, 1)
        key  == Strip(SubSeq(line, 1, j - 1))
    IN  IF j = 0 THEN meta
        ELSE [k \in DOMAIN meta \cup {key} |->
                 IF k = key THEN Strip(SubSeq(line, j + 1, Len(line)))
                 ELSE meta[k]]

RECURSIVE MetadataLines(_, _)
MetadataLines(meta, lines) ==
    IF lines = <<>> THEN meta
    ELSE MetadataLines(MetadataLine(meta, Head(lines)), Tail(lines))

Dashes == << "-", "-", "-" >>

\* an empty dict
NoMetadata == [k \in {} |-> <<>>]

strip_frontmatter(md_text) ==
    LET parts == Split(md_text, Dashes, 2)
    IN  IF StartsWith(md_text, Dashes) /\ Len(parts) >= 3
        THEN [text     |-> Strip(parts[3]),
              metadata |-> MetadataLines(NoMetadata, SplitLines(Strip(parts[2])))]
        ELSE [text |-> md_text, metadata |-> NoMetadata]

\* the first position at or after i that holds no \s character
RECURSIVE SkipSpace(_, _)
SkipSpace(s, i) ==
    IF i <= Len(s) /\ s[i] \in Whitespace THEN SkipSpace(s, i + 1) ELSE i

\* the last position of the line that holds position i
LineEnd(s, i) ==
    LET j == FindFrom(s, << "\n" >>, i)
    IN  IF j = 0 THEN Len(s) ELSE j - 1

\* ^ with re.MULTILINE
AtLineStart(s, i) == i = 1 \/ s[i - 1] = "\n"

SpanOpen == "<span class=\"task-done\">"

SpanClose == "</span>"

DoneGlyph == "U+2705"

TodoGlyph == "U+2B1C"

\* The match of ^(\s*[-*])\s*\[c\]\s+(.+)$ that starts at position i, where
\* box is [x] or [ ].  \s also matches a line break; the greedy \s+ gives
\* back characters until one that . matches follows it.
TaskMatch(s, i, box) ==
    LET a == SkipSpace(s, i)
        b == SkipSpace(s, a + 1)
        c == b + 3
        d == SkipSpace(s, c)
        starts == { k \in (c + 1)..d : k <= Len(s) /\ s[k] # "\n" }
        t == CHOOSE k \in starts : \A m \in starts : m <= k
    IN  IF /\ AtLineStart(s, i)
           /\ a <= Len(s)
           /\ s[a] \in {"-", "*"}
           /\ b + 2 <= Len(s)
           /\ SubSeq(s, b, b + 2) = box
           /\ starts # {}
        THEN [ok |-> TRUE, g1 |-> SubSeq(s, i, a),
              g2 |-> SubSeq(s, t, LineEnd(s, t)), end |-> LineEnd(s, t)]
        ELSE [ok |-> FALSE]

\* the replacement templates of the two re.sub calls
TaskReplacement(box, m) ==
    IF box = << "[", "x", "]" >>
    THEN m.g1 \o << " ", SpanOpen, DoneGlyph, " " >> \o m.g2 \o << SpanClose >>
    ELSE m.g1 \o << " ", TodoGlyph, " " >> \o m.g2

\* re.sub(pattern, replacement, s, flags=re.MULTILINE), from position i on
RECURSIVE TaskSub(_, _, _)
TaskSub(s, i, box) ==
    IF i > Len(s) THEN <<>>
    ELSE LET m == TaskMatch(s, i, box)
         IN  IF m.ok
             THEN TaskReplacement(box, m) \o TaskSub(s, m.end + 1, box)
             ELSE << s[i] >> \o TaskSub(s, i + 1, box)

\* preprocess_markdown; only the WeChat variant strips the front matter
preprocess_markdown(v, md_text) ==
    LET t0 == IF v = "wechat" THEN strip_frontmatter(md_text).text ELSE md_text
        t1 == TaskSub(t0, 1, << "[", "x", "]" >>)
    IN  TaskSub(t1, 1, << "[", " ", "]" >>)

\* the match of ^#\s+(.+) at the start of the text: where group 1 starts
TitleStart(s) ==
    LET d == SkipSpace(s, 2)
        starts == { k \in 3..d : k <= Len(s) /\ s[k] # "\n" }
    IN  IF s # <<>> /\ s[1] = "#" /\ starts # {}
        THEN CHOOSE k \in starts : \A m \in starts : m <= k
        ELSE 0

RECURSIVE FirstNonEmpty(_)
FirstNonEmpty(lines) ==
    IF lines = <<>> THEN << "U", "n", "t", "i", "t", "l", "e", "d" >>
    ELSE IF Strip(Head(lines)) # <<>>
         THEN SubSeq(Strip(Head(lines)), 1,
                     IF Len(Strip(Head(lines))) < 100 THEN Len(Strip(Head(lines))) ELSE 100)
         ELSE FirstNonEmpty(Tail(lines))

extract_title(md_text) ==
    IF TitleStart(md_text) # 0
    THEN Strip(SubSeq(md_text, TitleStart(md_text), LineEnd(md_text, TitleStart(md_text))))
    ELSE FirstNonEmpty(SplitLines(md_text))

RECURSIVE SkipNewlines(_, _)
SkipNewlines(s, i) ==
    IF i <= Len(s) /\ s[i] = "\n" THEN SkipNewlines(s, i + 1) ELSE i

\* re.sub(r"^#\s+.+\n*", "", md_text, count=1).lstrip()
remove_title(md_text) ==
    IF TitleStart(md_text) # 0
    THEN LStrip(SubSeq(md_text,
                       SkipNewlines(md_text, LineEnd(md_text, TitleStart(md_text)) + 1),
                       Len(md_text)))
    ELSE LStrip(md_text)

(***************************************************************************)
(* markdown.Markdown(extensions).convert(text), for the kinds of line the  *)
(* texts of this model hold: ATX and setext headings, rules, bullet lists  *)
(* with one-line or lazily continued items, paragraphs, and the inline     *)
(* <span> the pre-processing writes.  The result is the forest the HTML    *)
(* parser builds from the markup.                                          *)
(***************************************************************************)
\* "\n".join(lines)
RECURSIVE JoinLines(_)
JoinLines(lines) ==
    IF lines = <<>> THEN <<>>
    ELSE IF Len(lines) = 1 THEN lines[1]
    ELSE lines[1] \o << "\n" >> \o JoinLines(Tail(lines))

\* the number of characters c at the start of line l
RECURSIVE Leading(_, _)
Leading(l, c) == IF l # <<>> /\ Head(l) = c THEN 1 + Leading(Tail(l), c) ELSE 0

\* HashHeaderProcessor: a line that starts with one to six #
IsHashLine(l) == Leading(l, "#") >= 1

HashTag(l) == << "h1", "h2", "h3", "h4", "h5", "h6" >>[IF Leading(l, "#") > 6 THEN 6 ELSE Leading(l, "#")]

\* SetextHeaderProcessor: the second line of the block is [=-]+[ ]*
IsUnderline(l) ==
    LET u == RStrip(l)
    IN  /\ u # <<>>
        /\ \A i \in DOMAIN u : u[i] \in {"=", "-"}

\* HRProcessor: at most three spaces, then three or more of - * or _
IsRuleLine(l) ==
    LET n == Leading(l, " ")
        u == RStrip(SubSeq(l, n + 1, Len(l)))
    IN  /\ n <= 3
        /\ Len(u) >= 3
        /\ \E c \in {"-", "*", "_"} : \A i \in DOMAIN u : u[i] = c
        /\ \A i \in DOMAIN l : l[i] \in {"-", "*", "_", " "}

\* UListProcessor: ^[ ]{0,3}[*+-][ ]+(.*)
IsItem(l) ==
    LET n == Leading(l, " ")
    IN  n <= 3 /\ Len(l) >= n + 2 /\ l[n + 1] \in {"*", "+", "-"} /\ l[n + 2] = " "

ItemText(l) ==
    LET n == Leading(l, " ")
        r == SubSeq(l, n + 2, Len(l))
    IN  SubSeq(r, Leading(r, " ") + 1, Len(r))

\* the text of each item: a line that starts no item continues the last one
RECURSIVE ItemTexts(_, _)
ItemTexts(items, lines) ==
    IF lines = <<>> THEN items
    ELSE IF IsItem(Head(lines))
         THEN ItemTexts(Append(items, ItemText(Head(lines))), Tail(lines))
         ELSE ItemTexts([items EXCEPT ![Len(items)] = @ \o << "\n" >> \o Head(lines)],
                        Tail(lines))

\* inline content: text, and the span elements the text holds as raw HTML
RECURSIVE InlineNodes(_)
InlineNodes(s) ==
    LET a == FindFrom(s, << SpanOpen >>, 1)
        b == FindFrom(s, << SpanClose >>, a + 1)
        lead == IF a > 1 THEN << Txt(SubSeq(s, 1, a - 1)) >> ELSE <<>>
    IN  IF s = <<>> THEN <<>>
        ELSE IF a = 0 \/ b = 0 THEN << Txt(s) >>
        ELSE lead
             \o << El("span", {"task-done"}, InlineNodes(SubSeq(s, a + 1, b - 1))) >>
             \o InlineNodes(SubSeq(s, b + 1, Len(s)))

\* one block of lines through the block processors, in their priority order
RECURSIVE ParseBlock(_)
ParseBlock(lines) ==
    LET hs == { j \in DOMAIN lines : IsHashLine(lines[j]) }
        rs == { j \in DOMAIN lines : IsRuleLine(lines[j]) }
        h  == CHOOSE j \in hs : \A k \in hs : j <= k
        r  == CHOOSE j \in rs : \A k \in rs : j <= k
    IN  IF lines = <<>> THEN <<>>
        ELSE IF hs # {}
        THEN ParseBlock(SubSeq(lines, 1, h - 1))
             \o << El(HashTag(lines[h]), {},
                      InlineNodes(Strip(SubSeq(lines[h], Leading(lines[h], "#") + 1, Len(lines[h]))))) >>
             \o ParseBlock(SubSeq(lines, h + 1, Len(lines)))
        ELSE IF Len(lines) >= 2 /\ IsUnderline(lines[2])
        THEN << El(IF lines[2][1] = "=" THEN "h1" ELSE "h2", {}, InlineNodes(Strip(lines[1]))) >>
             \o ParseBlock(SubSeq(lines, 3, Len(lines)))
        ELSE IF rs # {}
        THEN ParseBlock(SubSeq(lines, 1, r - 1))
             \o << El("hr", {}, <<>>) >>
             \o ParseBlock(SubSeq(lines, r + 1, Len(lines)))
        ELSE IF IsItem(lines[1])
        THEN << El("ul", {},
                   LET items == ItemTexts(<<>>, lines)
                   IN  [i \in DOMAIN items |-> El("li", {}, InlineNodes(items[i]))] \o <<>>) >>
        ELSE << El("p", {}, InlineNodes(Strip(JoinLines(lines)))) >>

\* the blocks of a text: runs of lines between blank lines
RECURSIVE ParseLines(_, _)
ParseLines(block, lines) ==
    IF lines = <<>> THEN ParseBlock(block)
    ELSE IF Strip(Head(lines)) = <<>>
         THEN ParseBlock(block) \o ParseLines(<<>>, Tail(lines))
         ELSE ParseLines(Append(block, Head(lines)), Tail(lines))

markdown_convert(text) == ParseLines(<<>>, SplitLines(text))

(***************************************************************************)
(* What the entry points return                                            *)
(***************************************************************************)
\* the markup of the tree under x: what str() writes, without node identity
RECURSIVE Markup(_, _)
Markup(h, x) ==
    [tag |-> h[x].tag, cls |-> h[x].cls, lang |-> h[x].lang,
     style |-> h[x].style, alt |-> h[x].alt, text |-> h[x].text,
     kids |-> [i \in DOMAIN h[x].kids |-> Markup(h, h[x].kids[i])]]

\* str(soup)
Str(h) == Markup(h, Root).kids

\* the keys of the Zhihu THEMES in the order of the dict
ZhihuThemeOrder == <<"zhihu", "elegant", "tech", "warm", "nature">>

\* theme_options: one <option value=key selected>name (key)</option> per theme
ThemeOptions(name) ==
    [i \in DOMAIN ZhihuThemeOrder |->
        [value    |-> ZhihuThemeOrder[i],
         selected |-> IF ZhihuThemeOrder[i] = name THEN "selected" ELSE "",
         label    |-> ZHIHU_THEMES[ZhihuThemeOrder[i]].name]]

\* a shell that would not take the fragment as it is
build_document_restyled(v, ttl, body_html, st, theme, name) ==
    [shell |-> v, body |-> [i \in DOMAIN body_html |-> [body_html[i] EXCEPT !.style = <<>>]]]

\* The preview shell: the fixed template with its interpolated values.
build_document(v, ttl, body_html, st, theme, name) ==
    IF v = "wechat"
    THEN [shell |-> "wechat", head_title |-> theme.name,
          font |-> theme.font_body, primary |-> theme.primary,
          container |-> st["container"], body |-> body_html]
    ELSE [shell |-> "zhihu", head_title |-> ttl, article_title |-> ttl,
          font |-> theme.font_body, primary |-> theme.primary,
          theme_options |-> ThemeOptions(name),
          container |-> st["container"], body |-> body_html]

\* apply_styles as one function of (tree, styles), when every call returns
apply_styles(doc, st, v) ==
    LET h0  == BeautifulSoup(doc)
        h1  == After(h0, StyleHeadings(h0, st))
        h2  == After(h1, StyleParagraphs(h1, st))
        h3  == After(h2, StyleInline(h2, st))
        h4  == After(h3, StyleLinks(h3, st))
        h5  == After(h4, StyleLists(h4, st))
        h6  == After(h5, StyleBlockquotes(h5, st))
        h7  == After(h6, StyleCodeBlocks(h6, st, v))
        h8  == After(h7, WrapBarePres(h7, st).h)
        h9  == After(h8, StyleInlineCode(h8, st))
        h10 == After(h9, StyleTables(h9, st))
        h11 == After(h10, StyleRules(h10, st))
        h12 == After(h11, StyleImages(h11, st, v))
        h13 == After(h12, StyleTaskDone(h12, st))
        h14 == After(h13, StyleFootnotes(h13, st))
    IN  Str(h14)

\* the post-processing of convert_to_zhihu_content as one function
zhihu_content(doc) ==
    LET h0 == BeautifulSoup(doc)
        h1 == After(h0, ZhihuCodeBlocks(h0))
        r  == After(h1, ZhihuFigures(h1))
    IN  [raised |-> r.raised, html |-> Str(r.h)]

(***************************************************************************)
(* The state of a process that has not started a publisher, and of one     *)
(* that runs a single conversion                                           *)
(***************************************************************************)
\* Python's None, where a name or a token is expected
None == "None"

\* no readable TOKEN_CACHE_FILE
NoCache == [exists |-> FALSE, access_token |-> None, expires_at |-> 0]

PublisherIdle ==
    /\ now = 0
    /\ cache = NoCache
    /\ access_token = None
    /\ html_content = <<>>
    /\ content = <<>>
    /\ thumb_media_id = None
    /\ media_id = None
    /\ publish_id = None
    /\ net = <<>>
    /\ publish = FALSE
    /\ md_files = <<>>
    /\ idx = 0
    /\ success_list = <<>>
    /\ fail_list = <<>>
    /\ sleeps = 0
    /\ calls = <<>>
    /\ ok = None

NoOtherConversions ==
    /\ themes = [v \in {"wechat", "zhihu"} |-> THEMES(v)]
    /\ conv = <<>>

(***************************************************************************)
(* The conversion, step by step                                            *)
(***************************************************************************)
Init ==
    /\ entry \in Entries
    /\ raw \in Docs
    /\ theme_name \in ThemeArgs(entry)
    /\ Len(raw) > 1 => theme_name = DefaultTheme(VariantOf(entry))
    /\ styles = NoStyles
    /\ heap = <<>>
    /\ pc = IF entry = "convert_to_zhihu_content" THEN "parse" ELSE "build_styles"
    /\ md_content = <<>>
    /\ md = <<>>
    /\ metadata = NoMetadata
    /\ title \in (IF entry = "convert_to_preview" /\ Len(raw) <= 1
                  THEN Titles ELSE { <<"T">> })
    /\ out = <<>>
    /\ results = {}
    /\ PublisherIdle
    /\ NoOtherConversions

Step(from, to, h) ==
    /\ pc = from
    /\ pc' = to
    /\ heap' = h
    /\ UNCHANGED <<pubvars, parvars, entry, theme_name, raw, styles, md_content, md, metadata, title, out,
                   results>>

BuildStyles ==
    /\ pc = "build_styles"
    /\ styles' = build_styles(Variant, theme_name)
    /\ pc' = "parse"
    /\ UNCHANGED <<pubvars, parvars, entry, theme_name, raw, heap, md_content, md, metadata, title, out,
                   results>>

\* a parse that would add to the tree of the invocation before
ParseIntoOldTree ==
    Step("parse",
         IF entry = "convert_to_zhihu_content" THEN "zhihu_code" ELSE "headings",
         IF heap = <<>> THEN BeautifulSoup(raw) ELSE AddForest(heap, Root, raw))

Parse ==
    Step("parse",
         IF entry = "convert_to_zhihu_content" THEN "zhihu_code" ELSE "headings",
         BeautifulSoup(raw))

Headings == Step("headings", "paragraphs", StyleHeadings(heap, styles))

Paragraphs == Step("paragraphs", "inline", StyleParagraphs(heap, styles))

Inline == Step("inline", "links", StyleInline(heap, styles))

Links == Step("links", "lists", StyleLinks(heap, styles))

Lists == Step("lists", "blockquotes", StyleLists(heap, styles))

Blockquotes == Step("blockquotes", "code_blocks", StyleBlockquotes(heap, styles))

CodeBlocks == Step("code_blocks", "bare_pre", StyleCodeBlocks(heap, styles, Variant))

\* The insert_after of a bare <pre> walks a cycle of parents: either the walk
\* never ends, or (a library whose insert does not walk) the call returns and
\* leaves wrapper, body and pre outside the document.
BarePreHangs ==
    /\ pc = "bare_pre"
    /\ WrapBarePres(heap, styles).cyc
    /\ Step("bare_pre", "hung", heap)

BarePre == Step("bare_pre", "inline_code", WrapBarePres(heap, styles).h)

InlineCode == Step("inline_code", "tables", StyleInlineCode(heap, styles))

Tables == Step("tables", "rules", StyleTables(heap, styles))

Rules == Step("rules", "images", StyleRules(heap, styles))

Images == Step("images", "task_done", StyleImages(heap, styles, Variant))

TaskDone == Step("task_done", "footnotes", StyleTaskDone(heap, styles))

Footnotes == Step("footnotes", "done", StyleFootnotes(heap, styles))

ZhihuCode == Step("zhihu_code", "zhihu_figures", ZhihuCodeBlocks(heap))

ZhihuImages ==
    /\ pc = "zhihu_figures"
    /\ LET r == ZhihuFigures(heap)
       IN  Step("zhihu_figures", IF r.raised THEN "raised" ELSE "done", r.h)

\* return styled_html / return build_document(..) / return str(soup)
Return ==
    /\ pc = "done"
    /\ pc' = "returned"
    /\ out' = IF entry \in PreviewEntries
              THEN build_document(Variant, title, Str(heap), styles,
                                  ThemeGet(Variant, theme_name), theme_name)
              ELSE Str(heap)
    /\ UNCHANGED <<pubvars, parvars, entry, theme_name, raw, styles, heap, md_content, md, metadata, title,
                   results>>

Next ==
    \/ Return
    \/ BuildStyles \/ Parse \/ Headings \/ Paragraphs \/ Inline \/ Links
    \/ Lists \/ Blockquotes \/ CodeBlocks \/ BarePreHangs \/ BarePre
    \/ InlineCode \/ Tables \/ Rules \/ Images \/ TaskDone \/ Footnotes
    \/ ZhihuCode \/ ZhihuImages

Spec == Init /\ [][Next]_vars

(***************************************************************************)
(* Several invocations, one after another, in one process                  *)
(***************************************************************************)
RunDocs ==
    { <<B_pre>>, <<B_img(<<"c","a","t">>)>>, <<B_codehilite(<<"p","y">>, <<>>)>> }

RunThemes(e) == IF e = "convert" THEN {"blue", "dark"} ELSE {DefaultTheme(VariantOf(e))}

StartOf(e) == IF e = "convert_to_zhihu_content" THEN "parse" ELSE "build_styles"

RunsInit ==
    /\ entry \in Entries
    /\ raw \in RunDocs
    /\ theme_name \in RunThemes(entry)
    /\ styles = NoStyles
    /\ heap = <<>>
    /\ pc = StartOf(entry)
    /\ md_content = <<>>
    /\ md = <<>>
    /\ metadata = NoMetadata
    /\ title = <<"T">>
    /\ out = <<>>
    /\ results = {}
    /\ PublisherIdle
    /\ NoOtherConversions

\* The entry point is called again, with any arguments.  Its locals keep
\* the values of the call before until the code assigns them.
Again ==
    /\ pc = "returned"
    /\ Cardinality(results) < MaxRuns
    /\ results' = results \cup
          { [entry |-> entry, theme_name |-> theme_name, raw |-> raw, out |-> out] }
    /\ entry' \in Entries
    /\ raw' \in RunDocs
    /\ theme_name' \in RunThemes(entry')
    /\ pc' = StartOf(entry')
    /\ UNCHANGED <<pubvars, parvars, styles, heap, md_content, md, metadata, title, out>>

RunsNext == Next \/ Again

RunsSpec == RunsInit /\ [][RunsNext]_vars

(***************************************************************************)
(* The entry points from their text argument on                            *)
(***************************************************************************)
L_done == << "-", " ", "[", "x", "]", " ", "a" >>

L_todo == << "*", " ", "[", " ", "]", " ", "b" >>

L_nested == << " ", " ", "-", " ", "[", "x", "]", " ", "c" >>

\* an item marker with no text on its line
L_empty == << "-", " ", "[", "x", "]" >>

L_text == << "x" >>

L_title == << "#", " ", "T" >>

L_meta == << "k", ":", " ", "v" >>

L_padded == << " ", "k", " ", ":", " ", "v", ":", "w", " " >>

\* a value that holds the marker
L_inside == << "t", ":", " ", "a", "-", "-", "-", "b" >>

\* a table separator row
L_row == << "|", "-", "-", "-", "|" >>

Lines == { L_done, L_todo, L_nested, L_empty, L_text, L_title, L_meta, L_inside, Dashes, <<>> }

MetaLines == { L_meta, L_padded, L_inside, L_text }

BodyLines == { L_text, L_done, L_title, L_row }

Texts ==
    { a : a \in Lines }
    \cup { JoinLines(<<a, b>>) : a \in Lines, b \in Lines }
    \cup { JoinLines(<<Dashes, m, Dashes, b>>) : m \in MetaLines, b \in BodyLines }
    \cup { JoinLines(<<Dashes, m, b>>) : m \in MetaLines, b \in BodyLines }
    \cup { JoinLines(<<Dashes, L_meta, m, Dashes, L_text>>) : m \in MetaLines }
    \cup { JoinLines(<<Dashes, m, Dashes, Dashes, L_text, Dashes, b>>) :
              m \in MetaLines, b \in BodyLines }

\* publish_article of the WeChat publisher, up to its html_content, besides
\* the entry points of the converters
MdEntries == Entries \cup {"publish_article"}

MdStart(e) ==
    IF e = "convert_to_zhihu_content" THEN "task_done_sub"
    ELSE IF e = "publish_article" THEN "publish_strip"
    ELSE "md_build_styles"

MdInit ==
    /\ entry \in MdEntries
    /\ md_content \in Texts
    /\ md = md_content
    /\ theme_name \in RunThemes(entry)
    /\ raw = <<>>
    /\ metadata = NoMetadata
    /\ styles = NoStyles
    /\ heap = <<>>
    /\ pc = MdStart(entry)
    /\ title = <<>>
    /\ out = <<>>
    /\ results = {}
    /\ PublisherIdle
    /\ NoOtherConversions

\* a step that rewrites the text
MdStep(from, to, text) ==
    /\ pc = from
    /\ pc' = to
    /\ md' = text
    /\ UNCHANGED <<pubvars, parvars, entry, theme_name, raw, styles, heap, md_content, metadata, title, out,
                   results>>

\* md_content, frontmatter = strip_frontmatter(raw_content); md_content is
\* then the argument of convert_to_wechat_content
PublishStrip ==
    /\ pc = "publish_strip"
    /\ md_content' = strip_frontmatter(md_content).text
    /\ md' = strip_frontmatter(md_content).text
    /\ metadata' = strip_frontmatter(md_content).metadata
    /\ pc' = "md_build_styles"
    /\ UNCHANGED <<pubvars, parvars, entry, theme_name, raw, styles, heap, title, out, results>>

MdBuildStyles ==
    /\ pc = "md_build_styles"
    /\ styles' = build_styles(Variant, theme_name)
    /\ pc' = IF entry = "convert_to_preview" THEN "extract_title" ELSE "strip_frontmatter"
    /\ UNCHANGED <<pubvars, parvars, entry, theme_name, raw, heap, md_content, md, metadata, title, out,
                   results>>

ExtractTitle ==
    /\ pc = "extract_title"
    /\ title' = extract_title(md)
    /\ pc' = "remove_title"
    /\ UNCHANGED <<pubvars, parvars, entry, theme_name, raw, styles, heap, md_content, md, metadata, out,
                   results>>

RemoveTitle ==
    MdStep("remove_title",
           IF entry = "convert_to_preview" THEN "task_done_sub" ELSE "markdown",
           remove_title(md))

\* md_text, _ = strip_frontmatter(md_text): the WeChat preprocess_markdown only
StripFrontmatter ==
    /\ pc = "strip_frontmatter"
    /\ md' = strip_frontmatter(md).text
    /\ metadata' = strip_frontmatter(md).metadata
    /\ pc' = "task_done_sub"
    /\ UNCHANGED <<pubvars, parvars, entry, theme_name, raw, styles, heap, md_content, title, out, results>>

TaskDoneSub == MdStep("task_done_sub", "task_todo_sub", TaskSub(md, 1, << "[", "x", "]" >>))

TaskTodoSub ==
    MdStep("task_todo_sub",
           IF entry = "convert_to_zhihu_content" THEN "remove_title" ELSE "markdown",
           TaskSub(md, 1, << "[", " ", "]" >>))

Markdown ==
    /\ pc = "markdown"
    /\ raw' = markdown_convert(md)
    /\ pc' = "parse"
    /\ UNCHANGED <<pubvars, parvars, entry, theme_name, styles, heap, md_content, md, metadata, title, out,
                   results>>

\* The texts hold no raw HTML, so the parser returns no bare <pre> and the
\* pass over bare <pre> elements has nothing to wrap.
MdNext ==
    \/ PublishStrip \/ MdBuildStyles \/ ExtractTitle \/ RemoveTitle \/ StripFrontmatter
    \/ TaskDoneSub \/ TaskTodoSub \/ Markdown
    \/ Return
    \/ Parse \/ Headings \/ Paragraphs \/ Inline \/ Links
    \/ Lists \/ Blockquotes \/ CodeBlocks \/ BarePre
    \/ InlineCode \/ Tables \/ Rules \/ Images \/ TaskDone \/ Footnotes
    \/ ZhihuCode \/ ZhihuImages

MdSpec == MdInit /\ [][MdNext]_vars

(***************************************************************************)
(* Vocabulary of the properties                                            *)
(***************************************************************************)
ApplyEntry == entry \in {"convert", "convert_to_wechat_content", "convert_to_preview"}

\* apply_styles has returned
ApplyDone == ApplyEntry /\ pc = "done"

\* apply_styles has returned or can no longer return
ApplyEnded == ApplyEntry /\ pc \in {"done", "hung"}

\* the tree as parsed, before any pass
InHeap == BeautifulSoup(raw)

In == Descendants(InHeap, Root)

\* the nodes of the output document, in document order
Out == Descendants(heap, Root)

Elements(h, ids) == { ids[j] : j \in { i \in DOMAIN ids : h[ids[i]].tag # "#text" } }

Tagged(h, ids, name) == { ids[j] : j \in { i \in DOMAIN ids : h[ids[i]].tag = name } }

TextsOf(h, ids) ==
    LET ts == SelectSeq(ids, LAMBDA i : h[i].tag = "#text")
    IN  [j \in DOMAIN ts |-> h[ts[j]].text]

Count(seq, x) == Cardinality({ j \in DOMAIN seq : seq[j] = x })

NextSibling(h, x) ==
    LET ks == h[h[x].parent].kids
        i  == IndexOf(ks, x)
    IN  IF i < Len(ks) THEN ks[i + 1] ELSE Nil

OnlyText(h, x, s) ==
    Len(h[x].kids) = 1 /\ h[h[x].kids[1]].tag = "#text" /\ h[h[x].kids[1]].text = s

HasStyle(h, x, key) == h[x].style = styles[key]

\* the placeholder alt texts, as the specification defines them
GenericAlt(alt) == Lower(Strip(alt)) \in {Str_image, Str_img}

CaptionWorthy(alt) == Strip(alt) # <<>> /\ ~GenericAlt(alt)

CaptionStyled(h, x) == x # Nil /\ h[x].tag = "p" /\ HasStyle(h, x, "img_caption")

(***************************************************************************)
(* Text preservation                                                       *)
(***************************************************************************)
\* C1: apply_styles returns, and every text leaf of the input tree occurs in
\* its output at least as often as in the input: no text is dropped by
\* styling or by the structural rewrites, in either variant.
C1_TextLeavesKept ==
    ApplyEnded =>
        /\ pc = "done"
        /\ LET a == TextsOf(InHeap, In)
               b == TextsOf(heap, Out)
           IN  \A j \in DOMAIN a : Count(b, a[j]) >= Count(a, a[j])

(***************************************************************************)
(* Image captions                                                          *)
(***************************************************************************)
\* C2: in the output of apply_styles every img whose stripped alt text is
\* non-empty and not a generic placeholder carries the img style and is
\* immediately followed by exactly one caption paragraph: a p with the
\* img_caption style whose only content is the stripped alt text.
C2_CaptionInserted ==
    ApplyDone =>
        \A img \in Tagged(heap, Out, "img") :
            CaptionWorthy(heap[img].alt) =>
                LET c == NextSibling(heap, img)
                IN  /\ HasStyle(heap, img, "img")
                    /\ CaptionStyled(heap, c)
                    /\ OnlyText(heap, c, Strip(heap[img].alt))
                    /\ ~CaptionStyled(heap, NextSibling(heap, c))

\* an image with a padded, mixed-case descriptive alt has been captioned
C2_Witness ==
    /\ ApplyDone
    /\ \E img \in Tagged(heap, Out, "img") :
          /\ heap[img].alt = <<" ","C","a","t"," ">>
          /\ CaptionStyled(heap, NextSibling(heap, img))
          /\ heap[heap[img].parent].tag = "p"

\* C3: in the output of apply_styles, in both variants, an img whose alt is
\* missing, empty, or a generic placeholder ("image" or "img", compared
\* case-insensitively) is styled but is not followed by a caption paragraph.
C3_NoCaptionForGenericAlt ==
    ApplyDone =>
        \A img \in Tagged(heap, Out, "img") :
            (Strip(heap[img].alt) = <<>> \/ GenericAlt(heap[img].alt)) =>
                /\ HasStyle(heap, img, "img")
                /\ ~CaptionStyled(heap, NextSibling(heap, img))

(***************************************************************************)
(* Code blocks                                                             *)
(***************************************************************************)
\* the language hint of a highlighted block of the input
HintOf(h, div) ==
    IF h[div].lang # <<>> THEN h[div].lang
    ELSE LET c == find(h, div, "code")
         IN  IF c = Nil THEN <<>> ELSE h[c].lang

Wrappers == SelectSeq(Out, LAMBDA x : HasStyle(heap, x, "code_block_wrapper"))

WrapperAncestors(x) ==
    { a \in Ancestors(heap, x) : HasStyle(heap, a, "code_block_wrapper") }

\* wrapper > [header > [dots > 3 dots, badge?], body > .. pre ..]
WellFormedBlock(w, hint) ==
    /\ Len(heap[w].kids) = 2
    /\ LET header == heap[w].kids[1]
           body   == heap[w].kids[2]
       IN  /\ HasStyle(heap, header, "code_block_header")
           /\ HasStyle(heap, body, "code_block_body")
           /\ Len(heap[header].kids) = (IF hint = <<>> THEN 1 ELSE 2)
           /\ LET dots == heap[header].kids[1]
              IN  /\ HasStyle(heap, dots, "code_block_dots")
                  /\ Len(heap[dots].kids) = 3
                  /\ \A i \in 1..Len(heap[dots].kids) :
                        /\ heap[heap[dots].kids[i]].tag = "span"
                        /\ heap[heap[dots].kids[i]].style # <<>>
           /\ hint # <<>> =>
                 LET badge == heap[header].kids[2]
                 IN  /\ HasStyle(heap, badge, "code_block_lang")
                     /\ OnlyText(heap, badge, Upper(hint))
           /\ Cardinality(Tagged(heap, Descendants(heap, body), "pre")) = 1
    /\ WrapperAncestors(w) = {}

\* C4: for an input with k highlighted blocks the output of apply_styles has
\* exactly k wrapper containers, none inside another; the j-th has a header
\* with exactly 3 dots, a badge with the upper-cased hint iff the j-th block
\* has a hint, and a body that still holds the block's pre.
C4_CodeBlockWrappers ==
    ApplyDone =>
        LET blocks == find_all_class(InHeap, Root, "div", "codehilite")
        IN  /\ Len(Wrappers) = Len(blocks)
            /\ \A j \in DOMAIN Wrappers :
                  j <= Len(blocks) =>
                      WellFormedBlock(Wrappers[j], HintOf(InHeap, blocks[j]))

\* two highlighted blocks, the first with a hint and the second without
C4_Witness ==
    /\ ApplyDone
    /\ Len(Wrappers) = 2
    /\ Len(heap[heap[Wrappers[1]].kids[1]].kids) = 2
    /\ Len(heap[heap[Wrappers[2]].kids[1]].kids) = 1

\* C5: apply_styles returns, and every pre of the input that was outside a
\* highlighted block stands, at its place in the document, inside a new
\* wrapper > body chain (and the pre is still in the output).
C5_BarePreWrapped ==
    ApplyEnded =>
        /\ pc = "done"
        /\ \A j \in DOMAIN raw :
              raw[j].tag = "pre" =>
                  /\ j <= Len(heap[Root].kids)
                  /\ LET w == heap[Root].kids[j]
                     IN  /\ HasStyle(heap, w, "code_block_wrapper")
                         /\ Len(heap[w].kids) = 1
                         /\ HasStyle(heap, heap[w].kids[1], "code_block_body")
                         /\ Tagged(heap, Descendants(heap, heap[w].kids[1]), "pre") # {}

(***************************************************************************)
(* Tables                                                                  *)
(***************************************************************************)
\* the body rows of a table, in order
BodyRows(t) ==
    LET tbody == find(heap, t, "tbody")
    IN  IF tbody = Nil THEN <<>>
        ELSE SelectSeq(heap[tbody].kids, LAMBDA x : heap[x].tag = "tr")

Cells(tr) == { heap[tr].kids[i] : i \in { j \in DOMAIN heap[tr].kids :
                                            heap[heap[tr].kids[j]].tag = "td" } }

FootnoteDivs(h, ids) == { d \in Tagged(h, ids, "div") : "footnote" \in h[d].cls }

\* C7: in the output of apply_styles a footnote container has the
\* footnote_section style and no hr anywhere inside it.
C7_FootnoteNoRule ==
    ApplyDone =>
        \A d \in FootnoteDivs(heap, Out) :
            /\ HasStyle(heap, d, "footnote_section")
            /\ Tagged(heap, Descendants(heap, d), "hr") = {}

\* the input footnote container held an hr, and the container is in the
\* output with the rest of its content
C7_Witness ==
    /\ ApplyDone
    /\ \E d \in FootnoteDivs(InHeap, In) :
          /\ Tagged(InHeap, Descendants(InHeap, d), "hr") # {}
          /\ d \in FootnoteDivs(heap, Out)
          /\ Tagged(heap, Descendants(heap, d), "li") # {}

(***************************************************************************)
(* Inline styles in fragment mode                                          *)
(***************************************************************************)
FragmentDone ==
    entry \in {"convert_to_wechat_content", "convert_to_zhihu_content"} /\ pc = "done"

StyledKind(h, x) ==
    LET t == h[x].tag
        p == h[x].parent
    IN  \/ t \in {"h1", "h2", "h3", "h4", "p", "strong", "em", "del", "a",
                  "ul", "ol", "li", "blockquote", "table", "hr", "img"}
        \/ t = "span" /\ "task-done" \in h[x].cls
        \/ t = "div" /\ "footnote" \in h[x].cls
        \/ t = "th" /\ \E a \in Ancestors(h, x) : h[a].tag = "table"
        \/ t = "td" /\ h[p].tag = "tr" /\ h[h[p].parent].tag = "tbody"
        \/ /\ t = "code"
           /\ h[p].tag # "pre"
           /\ ~(h[p].tag = "div" /\ \E k \in {"overflow-x", "font-family"} :
                                       StyleContains(h[p].style, k))

\* the style attributes the Markdown parser emitted
ParserStyles == { InHeap[In[i]].style : i \in DOMAIN In } \cup { <<>> }

UnrecognisedTags == {"details", "summary", "h5", "h6", "sup", "thead", "tbody", "tr"}

\* C9: apply_styles returns for every input tree, and an element of a kind
\* it has no rule for is in the output with its attributes and its children
\* unchanged.
C9_TotalAndPassThrough ==
    ApplyEnded =>
        /\ pc = "done"
        /\ \A x \in Elements(InHeap, In) :
              InHeap[x].tag \in UnrecognisedTags =>
                  /\ InSeq(x, Out)
                  /\ heap[x].tag = InHeap[x].tag
                  /\ heap[x].cls = InHeap[x].cls
                  /\ heap[x].style = InHeap[x].style
                  /\ heap[x].kids = InHeap[x].kids

(***************************************************************************)
(* Themes                                                                  *)
(***************************************************************************)
\* C10: build_styles returns a full stylesheet for every theme name: the
\* stylesheet of the named theme when the name is a key of THEMES, and the
\* stylesheet of the variant's default theme ("blue" for WeChat, "zhihu"
\* for Zhihu) otherwise.
C10_UnknownThemeFallsBack ==
    (ApplyEntry /\ pc # "build_styles") =>
        /\ DOMAIN styles = StyleKeys
        /\ styles =
              (IF theme_name \in DOMAIN THEMES(Variant)
               THEN [k \in StyleKeys |->
                        StyleOf(Variant, THEMES(Variant)[theme_name], k)]
               ELSE [k \in StyleKeys |->
                        StyleOf(Variant,
                                THEMES(Variant)[IF Variant = "wechat" THEN "blue"
                                                ELSE "zhihu"], k)])

\* a stylesheet was built for a name that is not a theme key
C10_Witness ==
    /\ ApplyEntry
    /\ pc = "parse"
    /\ theme_name = "nosuch"
    /\ styles # NoStyles
    /\ styles["h1"] # <<>>

(***************************************************************************)
(* Preview documents                                                       *)
(***************************************************************************)
UnknownTheme == theme_name \notin DOMAIN THEMES(Variant)

\* what the preview entry point of variant v returns for (doc, ttl, name)
PreviewOf(v, doc, ttl, name) ==
    build_document(v, ttl, apply_styles(doc, build_styles(v, name), v),
                   build_styles(v, name), ThemeGet(v, name), name)

\* C11: a preview conversion (WeChat convert, Zhihu convert_to_preview) with
\* an unknown theme key returns the very document that the same input
\* returns with the default theme key, theme-switch control included.
C11_UnknownThemePreviewIsDefault ==
    (pc = "returned" /\ entry \in PreviewEntries /\ UnknownTheme) =>
        out = PreviewOf(Variant, raw, title, DefaultTheme(Variant))

\* what convert_to_wechat_content returns for (doc, name)
convert_to_wechat_content(doc, name) ==
    apply_styles(doc, build_styles("wechat", name), "wechat")

SameCall(r) == r.entry = entry /\ r.theme_name = theme_name /\ r.raw = raw

StripDone == pc = "task_done_sub" /\ Variant = "wechat"

InputLines == SplitLines(md_content)

OpeningLine == InputLines[1] = Dashes

\* the first later line that is the marker; 0 when there is none
ClosingLine ==
    LET at == { j \in 2..Len(InputLines) : InputLines[j] = Dashes }
    IN  IF at = {} THEN 0 ELSE CHOOSE j \in at : \A k \in at : j <= k

\* C13: when the text starts with a --- line and a later --- line closes the
\* block, strip_frontmatter returns exactly the text after the closing line,
\* and the mapping of the key: value lines between the two marker lines; a
\* --- inside a line closes nothing.
C13_MarkerLinesDelimit ==
    StripDone /\ OpeningLine /\ ClosingLine # 0 =>
        /\ md = JoinLines(SubSeq(InputLines, ClosingLine + 1, Len(InputLines)))
        /\ metadata = MetadataLines(NoMetadata, SubSeq(InputLines, 2, ClosingLine - 1))

\* C14: when the text does not start with a --- line, or no later --- line
\* closes the block, strip_frontmatter returns the text unchanged and an
\* empty mapping.
C14_AbsentOrMalformedUnchanged ==
    StripDone /\ (~OpeningLine \/ ClosingLine = 0) =>
        md = md_content /\ metadata = NoMetadata

(***************************************************************************)
(* Task lists                                                              *)
(***************************************************************************)
\* the two re.sub calls of preprocess_markdown have run
TasksDone ==
    IF entry = "convert_to_zhihu_content" THEN pc = "remove_title" ELSE pc = "markdown"

\* the text the two re.sub calls were given
TaskInput ==
    IF entry = "convert_to_zhihu_content" THEN md_content
    ELSE IF entry = "convert_to_preview" THEN remove_title(md_content)
    ELSE strip_frontmatter(md_content).text

Boxes == { << "[", "x", "]" >>, << "[", " ", "]" >> }

\* a line of optional indentation, a marker - or *, a box, and item text
IsTaskLine(l, boxes) ==
    LET a == SkipSpace(l, 1)
        b == SkipSpace(l, a + 1)
    IN  /\ a <= Len(l)
        /\ l[a] \in {"-", "*"}
        /\ b + 3 <= Len(l)
        /\ SubSeq(l, b, b + 2) \in boxes
        /\ l[b + 3] \in Whitespace
        /\ SkipSpace(l, b + 3) <= Len(l)

\* C15: the task-list rewriting keeps the number and order of the lines, and
\* changes no line other than the task lines (indentation, marker, box, item
\* text); a marker with no text on its line does not absorb the next line.
C15_TaskRewritingPerLine ==
    TasksDone =>
        LET before == SplitLines(TaskInput)
            after  == SplitLines(md)
        IN  /\ Len(after) = Len(before)
            /\ \A i \in DOMAIN before :
                   i \in DOMAIN after /\ ~IsTaskLine(before[i], Boxes) => after[i] = before[i]

Contains(s, sub) == FindFrom(s, sub, 1) # 0

\* the entry point has returned its value
Returned == pc = "returned"

\* the item text of a task line
TaskText(l) ==
    LET a == SkipSpace(l, 1)
        b == SkipSpace(l, a + 1)
    IN  SubSeq(l, SkipSpace(l, b + 3), Len(l))

TaskLines(boxes) ==
    LET ls == SplitLines(TaskInput)
    IN  { ls[i] : i \in { j \in DOMAIN ls : IsTaskLine(ls[j], boxes) } }

\* the text leaves below node x, in document order
LeafTexts(h, x) == TextsOf(h, Descendants(h, x))

DoneWrappers == { x \in Elements(heap, Out) : heap[x].tag = "span" /\ "task-done" \in heap[x].cls }

\* C16: in the output of a themed conversion every item marked [x] has its
\* text inside a span.task-done that carries the task_done style, and every
\* item marked [ ] has the unchecked glyph before its text, outside any such
\* span.
C16_TaskItemsMarked ==
    Returned /\ ApplyEntry =>
        /\ \A l \in TaskLines({ << "[", "x", "]" >> }) :
               \E x \in DoneWrappers :
                   /\ heap[x].style = styles["task_done"]
                   /\ \E j \in DOMAIN LeafTexts(heap, x) :
                          Contains(LeafTexts(heap, x)[j], << DoneGlyph, " " >> \o TaskText(l))
        /\ \A l \in TaskLines({ << "[", " ", "]" >> }) :
               \E x \in { y \in 1..Len(heap) : heap[y].tag = "#text" /\ InSeq(y, Out) } :
                   /\ Contains(heap[x].text, << TodoGlyph, " " >> \o TaskText(l))
                   /\ heap[x].parent \notin DoneWrappers

(***************************************************************************)
(* Front matter, from the entry points                                     *)
(***************************************************************************)
\* the key: value lines of the metadata block the text starts with
KeyValueLines ==
    IF OpeningLine /\ ClosingLine # 0
    THEN { Strip(InputLines[i]) :
             i \in { j \in 2..(ClosingLine - 1) : Contains(InputLines[j], << ":" >>) } }
    ELSE {}

\* C20: whichever entry point runs, no key: value line of a leading metadata
\* block is in the text of the output.
C20_FrontMatterNeverInOutput ==
    Returned =>
        \A l \in KeyValueLines :
            \A j \in DOMAIN LeafTexts(heap, Root) : ~Contains(LeafTexts(heap, Root)[j], l)

(***************************************************************************)
(* Paragraphs and inline code                                              *)
(***************************************************************************)
\* the paragraphs the parser returned
Paragraphs_In == Tagged(InHeap, In, "p")

\* C17: when apply_styles has returned, a paragraph of the parsed document
\* has the blockquote_p style if its direct parent is a blockquote, and the
\* p style otherwise, also when a blockquote is a more distant ancestor.
C17_BlockquoteParagraphs ==
    ApplyDone =>
        \A x \in Paragraphs_In :
            heap[x].style = IF InHeap[InHeap[x].parent].tag = "blockquote"
                            THEN styles["blockquote_p"]
                            ELSE styles["p"]

C17_Witness ==
    /\ ApplyDone
    /\ \E x \in Paragraphs_In :
           /\ InHeap[InHeap[x].parent].tag = "blockquote"
           /\ heap[x].style = styles["blockquote_p"]
    /\ \E x \in Paragraphs_In :
           /\ InHeap[InHeap[x].parent].tag = "li"
           /\ InsideTag(InHeap, x, "blockquote")
           /\ heap[x].style = styles["p"]
           /\ styles["p"] # styles["blockquote_p"]

\* the body container of a code block: the <div> the engine creates and
\* gives the code_block_body style
CodeBlockBody(h, x) ==
    x # Nil /\ h[x].tag = "div" /\ h[x].made /\ h[x].style = styles["code_block_body"]

\* C18: when apply_styles has returned, a code element has the code_inline
\* style exactly when its parent is neither a <pre> nor the body container
\* of a code block.
C18_InlineCodeExactly ==
    ApplyDone =>
        \A x \in Tagged(heap, Out, "code") :
            heap[x].style = styles["code_inline"]
                <=> ~(heap[heap[x].parent].tag = "pre" \/ CodeBlockBody(heap, heap[x].parent))

(***************************************************************************)
(* Tables                                                                  *)
(***************************************************************************)
\* C22: when apply_styles has returned, every table of the parsed document
\* is the only child of a container with the table_wrapper style that is
\* not itself inside such a container, has the table style, and all its
\* header cells have the th style.
C22_TableWrapped ==
    ApplyDone =>
        \A t \in Tagged(InHeap, In, "table") :
            LET w == heap[t].parent
            IN  /\ InSeq(t, Out)
                /\ heap[w].tag = "div"
                /\ heap[w].made
                /\ HasStyle(heap, w, "table_wrapper")
                /\ heap[w].kids = << t >>
                /\ \A a \in Ancestors(heap, w) : ~HasStyle(heap, a, "table_wrapper")
                /\ HasStyle(heap, t, "table")
                /\ \A c \in Tagged(heap, Descendants(heap, t), "th") : HasStyle(heap, c, "th")

\* two wrapped tables, each with styled header cells
C22_Witness ==
    /\ ApplyDone
    /\ Cardinality(Tagged(InHeap, In, "table")) = 2
    /\ \A t \in Tagged(InHeap, In, "table") :
           /\ HasStyle(heap, heap[t].parent, "table_wrapper")
           /\ \E c \in Tagged(heap, Descendants(heap, t), "th") : HasStyle(heap, c, "th")

(***************************************************************************)
(* Inserted nodes                                                          *)
(***************************************************************************)
\* the nodes of the given tag that the engine created
Made(tag) == { x \in 1..Len(heap) : heap[x].made /\ heap[x].tag = tag }

MadeWrappers == { x \in Made("div") : HasStyle(heap, x, "code_block_wrapper") }

\* the <pre> elements of the parsed document outside a highlighted block
BarePres ==
    { x \in Tagged(InHeap, In, "pre") :
        \A a \in Ancestors(InHeap, x) : "codehilite" \notin InHeap[a].cls }

\* C23: at every point of apply_styles, each paragraph the engine inserted
\* has the img_caption style and there is at most one per image of the
\* input (a caption is never restyled and never captioned itself), and
\* there is at most one wrapper per code block of the input (a rebuilt
\* block is not wrapped again).
C23_InsertedNotReprocessed ==
    ApplyEntry /\ heap # <<>> =>
        /\ \A x \in Made("p") :
               /\ HasStyle(heap, x, "img_caption")
               /\ Tagged(heap, Descendants(heap, x), "img") = {}
        /\ Cardinality(Made("p")) <= Cardinality(Tagged(InHeap, In, "img"))
        /\ Cardinality(MadeWrappers)
               <= Len(find_all_class(InHeap, Root, "div", "codehilite")) + Cardinality(BarePres)

\* apply_styles has returned a document with a caption and a rebuilt code
\* block
C23_Witness ==
    /\ ApplyDone
    /\ \E x \in Made("p") : HasStyle(heap, x, "img_caption") /\ InSeq(x, Out)
    /\ \E w \in MadeWrappers : InSeq(w, Out)

(***************************************************************************)
(* Figures of the Zhihu content mode                                       *)
(***************************************************************************)
\* convert_to_zhihu_content has returned or raised
ZhihuContentEnded == entry = "convert_to_zhihu_content" /\ pc \in {"done", "raised"}

\* C29: convert_to_zhihu_content returns, and in its output every image of
\* the parsed document that was not in a figure is the first child of a
\* new figure that stands where the image stood (same parent, same index),
\* followed there by a figcaption exactly when the stripped alt text is
\* non-empty and not generic.
C29_FigureInPlace ==
    ZhihuContentEnded =>
        /\ pc = "done"
        /\ \A img \in Tagged(InHeap, In, "img") :
               InHeap[InHeap[img].parent].tag # "figure" =>
                   LET f == heap[img].parent
                   IN  /\ heap[f].tag = "figure"
                       /\ heap[f].made
                       /\ heap[f].parent = InHeap[img].parent
                       /\ IndexOf(heap[heap[f].parent].kids, f)
                              = IndexOf(InHeap[InHeap[img].parent].kids, img)
                       /\ heap[f].kids[1] = img
                       /\ Len(heap[f].kids) = (IF CaptionWorthy(heap[img].alt) THEN 2 ELSE 1)

(***************************************************************************)
(* Titles                                                                  *)
(***************************************************************************)
\* a level-1 heading line: #, white space, text
IsTitleLine(l) ==
    Len(l) >= 3 /\ l[1] = "#" /\ l[2] \in {" ", "\t"} /\ Strip(SubSeq(l, 3, Len(l))) # <<>>

TitleLines == { j \in DOMAIN InputLines : IsTitleLine(InputLines[j]) }

\* extract_title(md_content) has returned
TitleExtracted == entry = "convert_to_preview" /\ pc = "remove_title"

\* C24: extract_title returns the trimmed text of the first level-1 heading
\* line wherever it stands in the text; without such a line, the first
\* non-empty line cut to 100 characters; without any, "Untitled".
C24_FirstHeadingAnywhere ==
    TitleExtracted =>
        title = IF TitleLines # {}
                THEN LET j == CHOOSE k \in TitleLines : \A m \in TitleLines : k <= m
                     IN  Strip(SubSeq(InputLines[j], 3, Len(InputLines[j])))
                ELSE FirstNonEmpty(InputLines)

(***************************************************************************)
(* Front matter, stripped twice                                            *)
(***************************************************************************)
\* C30: in the WeChat publish flow the second strip_frontmatter, inside
\* convert_to_wechat_content, returns the body the first one left, with an
\* empty mapping, also when that body begins with a --- rule.
C30_SecondStripKeepsBody ==
    entry = "publish_article" /\ StripDone => md = md_content /\ metadata = NoMetadata

(***************************************************************************)
(* The publishers: md-to-wechat/scripts/publish.py, and the batch of       *)
(* md-to-zhihu/scripts/publish.py                                          *)
(***************************************************************************)
\* cache.get("expires_at", 0) > time.time() + 300
ExpiryMargin == 300

\* "expires_at": time.time() + 7200
TokenLifetime == 7200

\* delay: int = 60
Delay == 60

\* a test of the cached token that leaves out the five minutes
FreshAnyTimeLeft(c, t) == c.exists /\ c.expires_at > t

Fresh(c, t) == c.exists /\ c.expires_at > t + ExpiryMargin

\* get_access_token, given what _fetch_access_token returns when it is called
get_access_token(c, t, fetched) ==
    IF Fresh(c, t)
    THEN [token |-> c.access_token, cache |-> c, fetched |-> FALSE]
    ELSE IF fetched # None
    THEN [token |-> fetched, fetched |-> TRUE,
          cache |-> [exists |-> TRUE, access_token |-> fetched,
                     expires_at |-> t + TokenLifetime]]
    ELSE [token |-> None, cache |-> c, fetched |-> TRUE]

\* URLs, as sequences of the parts the code looks for
Srcs ==
    { <<>>, <<"a.png">>, <<"//", "h", "/a.png">>,
      <<"data:", "image/png;base64,AA">>,
      <<"http://", "h", "/a.png">>, <<"https://", "h", "/a.png">>,
      <<"https://", "mmbiz.qpic.cn", "/a">>,
      <<"https://", "h", "/?u=", "mmbiz.qpic.cn">> }

\* what upload_image returns: a URL, or nothing (None)
NoUrl == <<>>

Uploaded == <<"https://", "mmbiz.qpic.cn", "/up">>

Img(src) == [tag |-> "img", src |-> src, alt |-> <<"c", "a", "t">>]

Para == [tag |-> "p", src |-> <<>>, alt |-> <<>>]

FragmentsOf(n) == UNION { [1..k -> {Para} \cup { Img(u) : u \in Srcs }] : k \in 0..n }

\* a test that would upload again what WeChat hosts already
ShouldUploadAnyHost(src) ==
    /\ src # <<>>
    /\ ~StartsWith(src, <<"data:">>)
    /\ StartsWith(src, <<"http://">>) \/ StartsWith(src, <<"https://">>)

ShouldUpload(src) ==
    /\ src # <<>>
    /\ ~(StartsWith(src, <<"data:">>) \/ Contains(src, <<"mmbiz.qpic.cn">>))
    /\ StartsWith(src, <<"http://">>) \/ StartsWith(src, <<"https://">>)

\* replace_images_in_html, given what upload_image returns for each node
replace_images_in_html(html, up) ==
    AsTree([i \in 1..Len(html) |->
              IF html[i].tag = "img" /\ ShouldUpload(html[i].src) /\ up[i] # NoUrl
              THEN [html[i] EXCEPT !.src = up[i]]
              ELSE html[i]])

\* the requests of upload_image, one image after the other
RECURSIVE Uploads(_, _)
Uploads(html, i) ==
    IF i > Len(html) THEN <<>>
    ELSE (IF html[i].tag = "img" /\ ShouldUpload(html[i].src)
          THEN <<"uploadimg">> ELSE <<>>) \o Uploads(html, i + 1)

PubEntries ==
    {"get_access_token", "replace_images_in_html", "publish_article", "batch_publish",
     "zhihu_batch_publish"}

BatchEntries == {"batch_publish", "zhihu_batch_publish"}

\* a token cache an earlier run left, written at time s
CachedAt(s) == [exists |-> TRUE, access_token |-> "t1", expires_at |-> s + TokenLifetime]

Caches == {NoCache} \cup { CachedAt(s) : s \in {0, ExpiryMargin, ExpiryMargin + 1, TokenLifetime} }

PubInit ==
    /\ entry \in PubEntries
    /\ pc = entry
    /\ out = <<>>
    /\ now = TokenLifetime
    /\ cache \in (IF entry \in {"get_access_token", "publish_article", "batch_publish"}
                  THEN Caches ELSE {NoCache})
    /\ access_token = IF entry = "replace_images_in_html" THEN "t1" ELSE None
    /\ html_content \in (IF entry = "replace_images_in_html"
                         THEN FragmentsOf(MaxImgs) ELSE { <<>> })
    /\ content = <<>>
    /\ thumb_media_id = None
    /\ media_id = None
    /\ publish_id = None
    /\ net = <<>>
    /\ publish \in (IF entry \in {"get_access_token", "replace_images_in_html"}
                    THEN {FALSE} ELSE BOOLEAN)
    /\ md_files = <<>>
    /\ idx = 0
    /\ success_list = <<>>
    /\ fail_list = <<>>
    /\ sleeps = 0
    /\ calls = <<>>
    /\ ok = None
    /\ theme_name = "blue"
    /\ raw = <<>>
    /\ styles = NoStyles
    /\ heap = <<>>
    /\ md_content = <<>>
    /\ md = <<>>
    /\ metadata = NoMetadata
    /\ title = <<>>
    /\ results = {}
    /\ NoOtherConversions

\* the variables no publisher step changes
rest == <<entry, out, convvars, parvars>>

batch == <<md_files, idx, success_list, fail_list, sleeps>>

\* the calls before the loop of batch_publish
BeforeLoop == entry \in BatchEntries /\ idx = 0

\* where control goes when publish_article ends with v: a return value,
\* "raised" (an exception leaves it) or "exited" (sys.exit)
Ended(v) ==
    IF v = "exited" THEN "exited"
    ELSE IF entry \in BatchEntries THEN "record"
    ELSE IF v = "raised" THEN "raised"
    ELSE "returned"

\* publish_article, up to md_path.exists()
OpenFile ==
    /\ pc = "publish_article"
    /\ calls' = Append(calls, IF entry \in BatchEntries THEN md_files[idx] ELSE 1)
    /\ net' = <<>>
    /\ access_token' = None
    /\ thumb_media_id' = None
    /\ media_id' = None
    /\ publish_id' = None
    /\ \E exists \in BOOLEAN :
          IF exists THEN pc' = "convert_to_wechat_content" /\ ok' = None
          ELSE pc' = Ended("False") /\ ok' = "False"
    /\ UNCHANGED <<rest, batch, now, cache, html_content, content, publish>>

\* from convert import convert_to_wechat_content; html_content = ...
ConvertToWechat ==
    /\ pc = "convert_to_wechat_content"
    /\ \E r \in {"ImportError", "html"} :
          IF r = "ImportError"
          THEN pc' = Ended("False") /\ ok' = "False" /\ UNCHANGED html_content
          ELSE /\ pc' = "_ensure_config"
               /\ html_content' \in { <<Para>>, <<Img(<<"https://", "h", "/a.png">>), Para>> }
               /\ UNCHANGED ok
    /\ UNCHANGED <<rest, batch, now, cache, access_token, content, thumb_media_id,
                   media_id, publish_id, net, publish, calls>>

\* _ensure_config: the stored configuration, or the setup wizard; sys.exit(1)
\* when the wizard fails.  Inside the loop of batch_publish the
\* configuration that batch_publish loaded is still there.
EnsureConfig ==
    /\ pc = "_ensure_config"
    /\ \E configured \in (IF entry \in BatchEntries /\ idx > 0 THEN {TRUE} ELSE BOOLEAN) :
          IF configured THEN pc' = "get_access_token" /\ UNCHANGED ok
          ELSE pc' = "exited" /\ ok' = "exited"
    /\ UNCHANGED <<rest, batch, now, cache, access_token, html_content, content,
                   thumb_media_id, media_id, publish_id, net, publish, calls>>

GetAccessToken ==
    /\ pc = "get_access_token"
    /\ \E fetched \in {None, "t2"} :
          LET r == get_access_token(cache, now, fetched)
          IN  /\ access_token' = r.token
              /\ cache' = r.cache
              /\ net' = IF r.fetched THEN Append(net, "token") ELSE net
              /\ IF entry = "get_access_token" THEN pc' = "returned" /\ UNCHANGED ok
                 ELSE IF r.token # None
                 THEN /\ pc' = IF BeforeLoop THEN "loop" ELSE "replace_images_in_html"
                      /\ UNCHANGED ok
                 ELSE IF BeforeLoop THEN pc' = "exited" /\ ok' = "exited"
                 ELSE pc' = Ended("False") /\ ok' = "False"
    /\ UNCHANGED <<rest, batch, now, html_content, content, thumb_media_id, media_id,
                   publish_id, publish, calls>>

ReplaceImages ==
    /\ pc = "replace_images_in_html"
    /\ \E up \in [1..Len(html_content) -> {NoUrl, Uploaded}] :
          content' = replace_images_in_html(html_content, up)
    /\ net' = net \o Uploads(html_content, 1)
    /\ pc' = IF entry = "replace_images_in_html" THEN "returned" ELSE "upload_thumb_media"
    /\ UNCHANGED <<rest, batch, now, cache, access_token, html_content, thumb_media_id,
                   media_id, publish_id, publish, calls, ok>>

\* upload_thumb_media catches every exception of its request
UploadThumb ==
    /\ pc = "upload_thumb_media"
    /\ net' = Append(net, "add_material")
    /\ \E r \in {None, "thumb"} :
          /\ thumb_media_id' = r
          /\ IF r # None THEN pc' = "create_draft" /\ UNCHANGED ok
             ELSE pc' = Ended("False") /\ ok' = "False"
    /\ UNCHANGED <<rest, batch, now, cache, access_token, html_content, content,
                   media_id, publish_id, publish, calls>>

\* create_draft: requests.post and resp.json() outside any try
CreateDraft ==
    /\ pc = "create_draft"
    /\ net' = Append(net, "draft/add")
    /\ \E r \in {"raises", None, "draft"} :
          IF r = "raises" THEN pc' = Ended("raised") /\ ok' = "raised" /\ UNCHANGED media_id
          ELSE /\ media_id' = r
               /\ IF r = None THEN pc' = Ended("False") /\ ok' = "False"
                  ELSE IF publish THEN pc' = "publish_draft" /\ UNCHANGED ok
                  ELSE pc' = Ended("True") /\ ok' = "True"
    /\ UNCHANGED <<rest, batch, now, cache, access_token, html_content, content,
                   thumb_media_id, publish_id, publish, calls>>

\* publish_draft: str(data.get("publish_id", "")) when errcode is 0 or
\* missing, None otherwise; its request is outside any try as well
PublishDraft ==
    /\ pc = "publish_draft"
    /\ net' = Append(net, "freepublish/submit")
    /\ \E r \in {"raises", None, "", "publish"} :
          IF r = "raises"
          THEN pc' = Ended("raised") /\ ok' = "raised" /\ UNCHANGED publish_id
          ELSE /\ publish_id' = r
               /\ IF r \in {None, ""} THEN pc' = Ended("False") /\ ok' = "False"
                  ELSE pc' = Ended("True") /\ ok' = "True"
    /\ UNCHANGED <<rest, batch, now, cache, access_token, html_content, content,
                   thumb_media_id, media_id, publish, calls>>

\* Zhihu's publish_article, up to md_path.exists()
ZhihuOpenFile ==
    /\ pc = "zhihu_publish_article"
    /\ calls' = Append(calls, md_files[idx])
    /\ net' = <<>>
    /\ media_id' = None
    /\ publish_id' = None
    /\ \E exists \in BOOLEAN :
          IF exists THEN pc' = "convert_to_zhihu_content" /\ ok' = None
          ELSE pc' = Ended("False") /\ ok' = "False"
    /\ UNCHANGED <<rest, batch, now, cache, access_token, html_content, content,
                   thumb_media_id, publish>>

\* html_content = convert_to_zhihu_content(md_content), inside a try that
\* catches ImportError only: the ValueError of an article with an image
\* leaves publish_article
ConvertToZhihu ==
    /\ pc = "convert_to_zhihu_content"
    /\ \E r \in {"ImportError", "ValueError", "html"} :
          IF r = "html" THEN pc' = "_ensure_login" /\ html_content' = <<Para>> /\ UNCHANGED ok
          ELSE /\ pc' = Ended(IF r = "ImportError" THEN "False" ELSE "raised")
               /\ ok' = IF r = "ImportError" THEN "False" ELSE "raised"
               /\ UNCHANGED html_content
    /\ UNCHANGED <<rest, batch, now, cache, access_token, content, thumb_media_id,
                   media_id, publish_id, net, publish, calls>>

\* _ensure_login: stored cookies that verify_login accepts, or login();
\* sys.exit(1) when login() fails.  verify_login is a request and returns
\* False for any status but 200 and for any exception.
EnsureLogin ==
    /\ pc = "_ensure_login"
    /\ net' = Append(net, "verify_login")
    /\ \E verified \in BOOLEAN, logged_in \in BOOLEAN :
          IF verified \/ logged_in
          THEN pc' = (IF BeforeLoop THEN "loop" ELSE "zhihu_create_draft") /\ UNCHANGED ok
          ELSE pc' = "exited" /\ ok' = "exited"
    /\ UNCHANGED <<rest, batch, now, cache, access_token, html_content, content,
                   thumb_media_id, media_id, publish_id, publish, calls>>

\* create_draft(cookies, title, html_content) inside try .. except Exception;
\* without a draft id the browser is tried
ZhihuCreateDraft ==
    /\ pc = "zhihu_create_draft"
    /\ net' = Append(net, "articles/drafts")
    /\ \E r \in {"raises", None, "draft"} :
          IF r \in {"raises", None} THEN pc' = "publish_via_browser" /\ UNCHANGED <<media_id, ok>>
          ELSE /\ media_id' = r
               /\ IF publish THEN pc' = "zhihu_publish_draft" /\ UNCHANGED ok
                  ELSE pc' = Ended("True") /\ ok' = "True"
    /\ UNCHANGED <<rest, batch, now, cache, access_token, html_content, content,
                   thumb_media_id, publish_id, publish, calls>>

ZhihuPublishDraft ==
    /\ pc = "zhihu_publish_draft"
    /\ net' = Append(net, "publish")
    /\ \E r \in {"raises", None, "url"} :
          IF r = "url" THEN pc' = Ended("True") /\ ok' = "True" /\ publish_id' = r
          ELSE pc' = "publish_via_browser" /\ UNCHANGED <<publish_id, ok>>
    /\ UNCHANGED <<rest, batch, now, cache, access_token, html_content, content,
                   thumb_media_id, media_id, publish, calls>>

\* return publish_via_browser(md_path, title, html_content, draft)
PublishViaBrowser ==
    /\ pc = "publish_via_browser"
    /\ net' = Append(net, "browser")
    /\ \E r \in {"True", "False"} : pc' = Ended(r) /\ ok' = r
    /\ UNCHANGED <<rest, batch, now, cache, access_token, html_content, content,
                   thumb_media_id, media_id, publish_id, publish, calls>>

\* sorted(): the files by name; a file is named by its rank among the names
sorted(listing) == SortSeq(listing, LAMBDA a, b : a < b)

\* the orders in which folder.glob("*.md") may list the files
Listings(folder) ==
    { l \in [1..Cardinality(folder) -> folder] : \A i, j \in DOMAIN l : i # j => l[i] # l[j] }

\* batch_publish up to `total = len(md_files)`: sys.exit(1) without a folder
\* or without Markdown files
BatchPublish ==
    /\ pc \in BatchEntries
    /\ \E is_dir \in BOOLEAN, folder \in SUBSET (1..MaxFiles) :
          IF is_dir /\ folder # {}
          THEN /\ \E listing \in Listings(folder) : md_files' = sorted(listing)
               /\ pc' = IF entry = "batch_publish" THEN "_ensure_config" ELSE "_ensure_login"
               /\ UNCHANGED ok
          ELSE pc' = "exited" /\ ok' = "exited" /\ UNCHANGED md_files
    /\ UNCHANGED <<rest, idx, success_list, fail_list, sleeps, now, cache, access_token,
                   html_content, content, thumb_media_id, media_id, publish_id, net,
                   publish, calls>>

\* for idx, md_file in enumerate(md_files, 1): the next file, or the summary
Loop ==
    /\ pc = "loop"
    /\ IF idx < Len(md_files)
       THEN /\ idx' = idx + 1
            /\ pc' = IF entry = "batch_publish" THEN "publish_article"
                     ELSE "zhihu_publish_article"
       ELSE pc' = "returned" /\ UNCHANGED idx
    /\ UNCHANGED <<rest, md_files, success_list, fail_list, sleeps, now, cache,
                   access_token, html_content, content, thumb_media_id, media_id,
                   publish_id, net, publish, calls, ok>>

\* the rest of the loop body: the try around publish_article, and the sleep
Record ==
    /\ pc = "record"
    /\ IF ok = "True"
       THEN success_list' = Append(success_list, md_files[idx]) /\ UNCHANGED fail_list
       ELSE fail_list' = Append(fail_list, md_files[idx]) /\ UNCHANGED success_list
    /\ IF idx < Len(md_files)
       THEN sleeps' = sleeps + 1 /\ now' = now + Delay
       ELSE UNCHANGED <<sleeps, now>>
    /\ pc' = "loop"
    /\ UNCHANGED <<rest, md_files, idx, cache, access_token, html_content, content,
                   thumb_media_id, media_id, publish_id, net, publish, calls, ok>>

PubNext ==
    \/ OpenFile \/ ConvertToWechat \/ EnsureConfig \/ GetAccessToken \/ ReplaceImages
    \/ UploadThumb \/ CreateDraft \/ PublishDraft
    \/ ZhihuOpenFile \/ ConvertToZhihu \/ EnsureLogin \/ ZhihuCreateDraft
    \/ ZhihuPublishDraft \/ PublishViaBrowser
    \/ BatchPublish \/ Loop \/ Record

PubSpec == PubInit /\ [][PubNext]_vars

(***************************************************************************)
(* The access token                                                        *)
(***************************************************************************)
\* a step of get_access_token
TokenStep == pc = "get_access_token" /\ pc' # pc

\* the step made a request for a new token
Fetches == net' = Append(net, "token")

\* C28: get_access_token returns the cached token, without a request, only
\* when the cached expiry time is more than 300 seconds after the current
\* time; otherwise it fetches.  A successful fetch returns the new token and
\* stores it with the expiry time now + 7200; a failed fetch returns None
\* and leaves the cache as it was.
C28_TokenCache ==
    [][TokenStep =>
         LET good == cache.exists /\ cache.expires_at > now + 300
         IN  /\ Fetches \/ net' = net
             /\ ~Fetches => good /\ access_token' = cache.access_token /\ cache' = cache
             /\ ~good => Fetches
             /\ Fetches /\ access_token' # None =>
                    cache' = [exists |-> TRUE, access_token |-> access_token',
                              expires_at |-> now + 7200]
             /\ Fetches /\ access_token' = None => cache' = cache]_vars

\* a token stored 301 seconds into its 7200 has been returned from the cache
C28_Witness ==
    /\ entry = "get_access_token"
    /\ pc = "returned"
    /\ net = <<>>
    /\ access_token = "t1"
    /\ cache.expires_at = now + 301

(***************************************************************************)
(* Images of the fragment                                                  *)
(***************************************************************************)
ImagesReplaced == entry = "replace_images_in_html" /\ pc = "returned"

\* C27: replace_images_in_html changes the src of an image only when the src
\* is an absolute http or https URL, is not a data: URI, does not contain
\* mmbiz.qpic.cn, and the upload returned a URL; every other image keeps its
\* src, and nothing else of the fragment is altered.
C27_OnlyRemoteImagesReplaced ==
    ImagesReplaced =>
        /\ Len(content) = Len(html_content)
        /\ \A i \in 1..Len(html_content) :
              LET before == html_content[i]
                  src    == before.src
              IN  content[i] # before =>
                      /\ before.tag = "img"
                      /\ src # <<>> /\ src[1] \in {"http://", "https://"}
                      /\ \A k \in 1..Len(src) : src[k] \notin {"data:", "mmbiz.qpic.cn"}
                      /\ "uploadimg" \in { net[k] : k \in 1..Len(net) }
                      /\ content[i] = [before EXCEPT !.src = Uploaded]

\* one image was uploaded and replaced, next to one that WeChat hosts already
C27_Witness ==
    /\ ImagesReplaced
    /\ Len(html_content) = 2
    /\ html_content[1].src = <<"https://", "mmbiz.qpic.cn", "/a">>
    /\ html_content[2].src = <<"https://", "h", "/a.png">>
    /\ content[1] = html_content[1]
    /\ content[2].src = Uploaded

(***************************************************************************)
(* publish_article of the WeChat publisher                                 *)
(***************************************************************************)
\* the running publish_article has made the request r
Requested(r) == \E k \in 1..Len(net) : net[k] = r

\* the request r was made and brought nothing
Failed(r, got) == Requested(r) /\ got = None

\* C25: the draft is created only after an access token and a thumb media id
\* were obtained, and the publish request is made only if publishing was
\* requested and the draft returned a media id.  publish_article returns True
\* exactly when the draft was created and publishing was not requested or
\* succeeded; when the token, the thumb upload or the draft creation fails
\* it returns False and makes no later request.
C25_PublishArticleOrder ==
    entry = "publish_article" =>
        /\ Requested("draft/add") => access_token # None /\ thumb_media_id # None
        /\ Requested("freepublish/submit") => publish /\ media_id # None
        /\ pc = "returned" =>
              (ok = "True" <=> media_id # None /\ (~publish \/ publish_id \notin {None, ""}))
        /\ \A r \in {<<"token", access_token>>, <<"add_material", thumb_media_id>>,
                     <<"draft/add", media_id>>} :
              Failed(r[1], r[2]) =>
                  pc = "returned" /\ ok = "False" /\ net[Len(net)] = r[1]

(***************************************************************************)
(* batch_publish, of both publishers                                       *)
(***************************************************************************)
\* the process is over, after the loop of batch_publish was entered
BatchEnded == pc \in {"returned", "exited"} /\ idx > 0

\* C26: batch_publish attempts the files in sorted order, each once.  A file
\* whose publish returns False or raises is recorded as failed and the batch
\* goes on; when the batch ends every file has been attempted, the success
\* and the failed count add up to the number of files, and the delay was
\* taken total - 1 times, never after the last file.
C26_BatchAttemptsEveryFile ==
    entry \in BatchEntries =>
        /\ \A i, j \in 1..Len(md_files) : i < j => md_files[i] < md_files[j]
        /\ calls = SubSeq(md_files, 1, Len(calls))
        /\ sleeps <= idx /\ (md_files # <<>> => sleeps < Len(md_files))
        /\ pc = "loop" /\ idx > 0 /\ ok # "True" =>
              fail_list # <<>> /\ fail_list[Len(fail_list)] = md_files[idx]
        /\ BatchEnded =>
              /\ calls = md_files
              /\ Len(success_list) + Len(fail_list) = Len(md_files)
              /\ sleeps = Len(md_files) - 1

(***************************************************************************)
(* Several conversions side by side, on one THEMES registry each variant   *)
(***************************************************************************)
Procs == {"one", "two"}

\* the arguments of the concurrent conversions
ParThemes(e) ==
    IF e = "convert_to_zhihu_content" THEN {"zhihu"}
    ELSE {"dark", "nosuch", DefaultTheme(VariantOf(e))}

ParInputs ==
    UNION { { [entry |-> e, theme_name |-> n, raw |-> d] :
                n \in ParThemes(e), d \in { <<B_pre>>, <<B_img(<<"c","a","t">>)>> } } :
            e \in Entries }

\* a lookup that would register the unknown key (setdefault for get)
RegistryAfterSetdefault(reg, v, name) ==
    IF name \in DOMAIN reg[v] THEN reg
    ELSE [reg EXCEPT ![v] = [k \in DOMAIN reg[v] \cup {name} |->
                                IF k = name THEN reg[v][DefaultTheme(v)] ELSE reg[v][k]]]

RegistryAfter(reg, v, name) == reg

\* THEMES.get(theme_name, THEMES[default]), on the registry as it is now
ThemeIn(reg, v, name) ==
    IF name \in DOMAIN reg[v] THEN reg[v][name] ELSE reg[v][DefaultTheme(v)]

StylesIn(reg, v, name) == [k \in StyleKeys |-> StyleOf(v, ThemeIn(reg, v, name), k)]

\* for key, val in THEMES.items(): the themes of the module, then any key
\* added since
OptionsIn(reg, name) ==
    LET order == ZhihuThemeOrder \o
                 (IF DOMAIN reg["zhihu"] = ZhihuThemeKeys THEN <<>>
                  ELSE << CHOOSE k \in DOMAIN reg["zhihu"] : k \notin ZhihuThemeKeys >>)
    IN  [i \in DOMAIN order |->
           [value    |-> order[i],
            selected |-> IF order[i] = name THEN "selected" ELSE "",
            label    |-> reg["zhihu"][order[i]].name]]

DocumentIn(reg, v, ttl, body_html, st, name) ==
    LET d == build_document(v, ttl, body_html, st, ThemeIn(reg, v, name), name)
    IN  IF v = "wechat" THEN d ELSE [d EXCEPT !.theme_options = OptionsIn(reg, name)]

\* the next pass of a conversion with the locals c: its pc and its tree
PassOf(c) ==
    LET h  == c.heap
        st == c.styles
        v  == VariantOf(c.entry)
    IN  CASE c.pc = "parse" ->
               { [pc   |-> IF c.entry = "convert_to_zhihu_content"
                           THEN "zhihu_code" ELSE "headings",
                  heap |-> BeautifulSoup(c.raw)] }
          [] c.pc = "headings" -> { [pc |-> "paragraphs", heap |-> StyleHeadings(h, st)] }
          [] c.pc = "paragraphs" -> { [pc |-> "inline", heap |-> StyleParagraphs(h, st)] }
          [] c.pc = "inline" -> { [pc |-> "links", heap |-> StyleInline(h, st)] }
          [] c.pc = "links" -> { [pc |-> "lists", heap |-> StyleLinks(h, st)] }
          [] c.pc = "lists" -> { [pc |-> "blockquotes", heap |-> StyleLists(h, st)] }
          [] c.pc = "blockquotes" ->
               { [pc |-> "code_blocks", heap |-> StyleBlockquotes(h, st)] }
          [] c.pc = "code_blocks" ->
               { [pc |-> "bare_pre", heap |-> StyleCodeBlocks(h, st, v)] }
          [] c.pc = "bare_pre" ->
               { [pc |-> "inline_code", heap |-> WrapBarePres(h, st).h] }
               \cup (IF WrapBarePres(h, st).cyc THEN { [pc |-> "hung", heap |-> h] }
                     ELSE {})
          [] c.pc = "inline_code" -> { [pc |-> "tables", heap |-> StyleInlineCode(h, st)] }
          [] c.pc = "tables" -> { [pc |-> "rules", heap |-> StyleTables(h, st)] }
          [] c.pc = "rules" -> { [pc |-> "images", heap |-> StyleRules(h, st)] }
          [] c.pc = "images" -> { [pc |-> "task_done", heap |-> StyleImages(h, st, v)] }
          [] c.pc = "task_done" -> { [pc |-> "footnotes", heap |-> StyleTaskDone(h, st)] }
          [] c.pc = "footnotes" -> { [pc |-> "done", heap |-> StyleFootnotes(h, st)] }
          [] c.pc = "zhihu_code" -> { [pc |-> "zhihu_figures", heap |-> ZhihuCodeBlocks(h)] }
          [] c.pc = "zhihu_figures" ->
               { [pc   |-> IF ZhihuFigures(h).raised THEN "raised" ELSE "done",
                  heap |-> ZhihuFigures(h).h] }
          [] OTHER -> {}

ParInit ==
    /\ entry = "threads"
    /\ pc = "threads"
    /\ out = <<>>
    /\ theme_name = ""
    /\ raw = <<>>
    /\ styles = NoStyles
    /\ heap = <<>>
    /\ md_content = <<>>
    /\ md = <<>>
    /\ metadata = NoMetadata
    /\ title = <<"T">>
    /\ results = {}
    /\ PublisherIdle
    /\ themes = [v \in {"wechat", "zhihu"} |-> THEMES(v)]
    /\ conv \in [Procs -> { [entry |-> a.entry, theme_name |-> a.theme_name, raw |-> a.raw,
                             styles |-> NoStyles, heap |-> <<>>, out |-> <<>>,
                             pc |-> StartOf(a.entry)] : a \in ParInputs }]

\* styles = build_styles(theme_name), in the conversion p
ProcBuildStyles(p) ==
    /\ conv[p].pc = "build_styles"
    /\ conv' = [conv EXCEPT ![p].styles =
                                StylesIn(themes, VariantOf(conv[p].entry), conv[p].theme_name),
                            ![p].pc = "parse"]
    /\ themes' = RegistryAfter(themes, VariantOf(conv[p].entry), conv[p].theme_name)
    /\ UNCHANGED <<entry, pc, out, convvars, pubvars>>

\* one pass of apply_styles or of convert_to_zhihu_content, in p
ProcPass(p) ==
    /\ \E n \in PassOf(conv[p]) : conv' = [conv EXCEPT ![p].pc = n.pc, ![p].heap = n.heap]
    /\ UNCHANGED <<entry, pc, out, convvars, pubvars, themes>>

\* the return of the entry point of p
ProcReturn(p) ==
    /\ conv[p].pc = "done"
    /\ LET c == conv[p]
           v == VariantOf(c.entry)
       IN  conv' = [conv EXCEPT ![p].pc = "returned",
                                ![p].out = IF c.entry \in PreviewEntries
                                           THEN DocumentIn(themes, v, title, Str(c.heap),
                                                           c.styles, c.theme_name)
                                           ELSE Str(c.heap)]
    /\ UNCHANGED <<entry, pc, out, convvars, pubvars, themes>>

ParNext == \E p \in Procs : ProcBuildStyles(p) \/ ProcPass(p) \/ ProcReturn(p)

ParSpec == ParInit /\ [][ParNext]_vars

\* what the conversion with the arguments of c returns when it runs alone
Alone(c) ==
    LET v == VariantOf(c.entry)
    IN  IF c.entry = "convert_to_zhihu_content" THEN zhihu_content(c.raw).html
        ELSE IF c.entry \in PreviewEntries THEN PreviewOf(v, c.raw, title, c.theme_name)
        ELSE apply_styles(c.raw, build_styles(v, c.theme_name), v)

\* C21: whatever the interleaving, a conversion that returns returns what it
\* returns alone; no step writes the THEMES registry, and no step writes the
\* styles a conversion has built or the locals of another conversion.
C21_ConversionsIndependent ==
    /\ [](\A p \in Procs : conv[p].pc = "returned" => conv[p].out = Alone(conv[p]))
    /\ [][/\ themes' = themes
          /\ \A p \in Procs : conv[p].styles # NoStyles => conv'[p].styles = conv[p].styles
          /\ \A p, q \in Procs : p # q /\ conv'[p] # conv[p] => conv'[q] = conv[q]]_vars

\* both conversions have returned, one of them a Zhihu preview for a theme
\* key that the registry does not hold
C21_Witness ==
    /\ \A p \in Procs : conv[p].pc = "returned"
    /\ conv["one"].entry = "convert_to_preview" /\ conv["one"].theme_name = "nosuch"
    /\ conv["two"].entry = "convert_to_preview" /\ conv["two"].raw # conv["one"].raw

====
